---- MODULE Spec2Model ----
\* Verification model of crocro: a two-party chat extension.
\*   relay room registry      src/scripts/build-manifest.js (server part)
\*   signaling client         src/src/lib/signaling.ts
\*   background service       src/unnamed/part_003
\*   direct-transport manager src/vite.config.ts (RTCManager part)
\*   message store            src/unnamed/part_001
\* The relay, the signaling client and the background service (with the
\* direct-transport manager and the store it drives) own disjoint variables;
\* each has its own next-state relations and specifications.
EXTENDS Integers, Sequences, FiniteSets, Bags, TLC

\* ---------------------------------------------------------------- bounds
NumConns == 3
MaxTicks == 1
\* websockets of one SignalingClient that have not fired close yet
MaxLive == 2
\* pending reconnect timers of one SignalingClient
MaxTimers == 2
\* chat messages the local user sends
MaxSends == 1
\* distinct chat payloads the peer sends (each at most once per transport)
NumPeerPayloads == 1
\* pending 100 ms timers of the signal handlers
MaxInitTimers == 1
\* signals queued while the popup is detached
MaxPendingSignals == 2
\* signal frames the relay receives
MaxSignals == 2

\* ------------------------------------------------------- relay constants
\* maxAge of the periodic cleanup (24 h) and its period (1 h), in hours
MaxAgeHours == 24
CleanupIntervalHours == 1
\* The clock is sampled once every TickHours: that many firings of the cleanup
\* timer in a row, with no request in between, delete what the last one finds due.
TickHours == (MaxAgeHours + 1) * CleanupIntervalHours
\* "Limit to 2 clients per room"
RoomCapacity == 2
\* the ports named 'popup' an open popup connects: the App's and the
\* PopupRTCManager's
PopupPorts == 2

\* ------------------------------------------- signaling client constants
MaxReconnectAttempts == 5
ReconnectDelay == 1000

Conns == 1..NumConns
\* two of the 36^6 room codes
RoomIds == {"ROOM01", "ROOM02"}
\* message.roomId of a frame that carries none
NoRoomId == ""
NoReq == [conn |-> 0, type |-> "none", roomId |-> NoRoomId]

VARIABLES
  rooms,      \* relay: roomId -> [clients, createdAt]   (Map rooms)
  clients,    \* relay: ws -> [roomId, peerId]           (Map clients)
  wsState,    \* relay: readyState of each server-side socket
  now,        \* relay: clock, in hours
  relayOut,   \* relay: frames written by the handler that ran last
  lastReq,    \* relay: the request that handler served
  sigCount,   \* relay: number of signal frames handleSignal has received
  wire,       \* relay: ws -> signal frames written to the socket, in flight
  received,   \* history: ws -> signal frames the member has received
  urlCount,          \* signaling: urls.length
  sigWs,             \* signaling: the websocket this.ws refers to (or null)
  orphans,           \* signaling: live websockets this.ws no longer refers to
  isConnected,       \* signaling: this.isConnected
  reconnectAttempts, \* signaling: this.reconnectAttempts
  timers,            \* signaling: number of pending setTimeout callbacks
  scheduled,         \* signaling: delays passed to setTimeout since the last open
  sigLast,           \* signaling: the callback that ran last
  variant,           \* which BackgroundService runs: "background" hosts the
                     \*   RTCManager itself, "popup" leaves it to the popup
  webrtc,            \* typeof RTCPeerConnection !== 'undefined' where it is hosted
  currentRoomId,     \* BackgroundService.currentRoomId
  isRoomInitiator,   \* BackgroundService.isRoomInitiator
  signalingConnected,\* the service's SignalingClient is connected
  inRelayRoom,       \* the relay has the service's socket in the room
  peerInRoom,        \* the relay has the peer's socket in the room
  isRelayConnected,  \* BackgroundService.isRelayConnected
  popupPort,         \* BackgroundService.popupPort !== null
  openPorts,         \* the number of connected ports named 'popup'
  popupIsInitiator,  \* PopupRTCManager.isInitiator
  pendingSignals,    \* BackgroundService.pendingSignals
  hasPopupConnectedBefore, \* BackgroundService.hasPopupConnectedBefore
  pendingMessages,   \* BackgroundService.pendingMessages (payload ids)
  rtcManager,        \* the live RTCManager, or NullRtc
  initTimers,        \* pending setTimeout(.., 100) callbacks of the signal handlers
  offersBy,          \* history: roles of the service when an offer was emitted
  store,             \* the 'messages' object store: a set of records
  sendCount,         \* history: ids drawn by sendMessage
  accepted,          \* history: ids sendMessage accepted in this room
  owed,              \* history: accepted ids after which the session got connected
  directOut,         \* own payloads in flight on the data channel
  relayUp,           \* own relay-message frames in flight to the relay
  peerReceived,      \* payload ids that reached the peer
  ackIn,             \* ids of the peer's acks in flight on the data channel
  peerSent,          \* history: <<id, transport>> the peer has sent
  directIn,          \* peer payloads in flight on the data channel
  relayIn,           \* peer payloads in flight from the relay
  handed,            \* history: id -> times handed to the application layer
  savedVia,          \* history: id -> transports whose handler saved it
  missed,            \* history: ids a handler saved while no popup was attached
  earlierClients,    \* SignalingClients the service no longer refers to and that
                     \*   are still connected: the rooms they are in, and
                     \*   (history) the payloads their onMessage saved
  saving,            \* inbound handlers awaiting storage.saveMessage: the record
                     \*   each one built and the transport it came over
  popupOut,          \* signals and chat payloads the handler that ran last
                     \*   posted to popupPort
  ackOut,            \* ids the RTCManager sent an ack for in the handler that
                     \*   ran last
  typingOut,         \* typing frames the RTCManager put on the data channel in
                     \*   the handler that ran last
  signalOut,         \* frames notifyRTCReady sent through sendSignal in the
                     \*   handler that ran last
  roomRequest,       \* the CREATE_ROOM / JOIN_ROOM the service is still serving
  callerResult,      \* what sendToBackground resolved with for that request
  sendResponse       \* what the last sendMessage call returned

signalVars == <<sigCount, wire, received>>
relayVars == <<rooms, clients, wsState, now, relayOut, lastReq, signalVars>>
sigVars == <<urlCount, sigWs, orphans, isConnected, reconnectAttempts,
             timers, scheduled, sigLast>>

roomVars == <<currentRoomId, isRoomInitiator, signalingConnected, inRelayRoom,
              peerInRoom, isRelayConnected>>
popupVars == <<popupPort, openPorts, popupIsInitiator, pendingSignals,
               hasPopupConnectedBefore, pendingMessages>>
rtcVars == <<rtcManager, initTimers, offersBy>>
outVars == <<sendCount, accepted, owed, directOut, relayUp, peerReceived, ackIn>>
inVars == <<peerSent, directIn, relayIn, handed, savedVia, missed>>
ioVars == <<popupOut, signalOut, ackOut, typingOut>>
callerVars == <<roomRequest, callerResult, sendResponse>>
asyncVars == <<earlierClients, saving>>
bgVars == <<variant, webrtc, roomVars, popupVars, rtcVars, store, outVars, inVars,
            ioVars, callerVars, asyncVars>>

vars == <<relayVars, sigVars, bgVars>>

\* ================================================================ relay
Frame(to, type, roomId, peerId, data) ==
  [to |-> to, type |-> type, roomId |-> roomId, peerId |-> peerId, data |-> data]

\* generatePeerId(): one id per connection; NoPeer in a frame that names no peer
generatePeerId(ws) == ws
NoPeer == 0

MapPut(m, k, v) == [x \in (DOMAIN m) \cup {k} |-> IF x = k THEN v ELSE m[x]]
MapDel(m, k) == [x \in (DOMAIN m) \ {k} |-> m[x]]

\* RoomManager.broadcastToRoom over registry rs: the frames it writes
broadcastToRoom(rs, roomId, type, peerId, data, excludeWs) ==
  IF roomId \notin DOMAIN rs THEN {}
  ELSE { Frame(c, type, roomId, peerId, data) :
           c \in { m \in rs[roomId].clients : m # excludeWs /\ wsState[m] = "open" } }

\* createRoom without the rooms.has(roomId) guard
createRoom_NoExistsCheck(rs, roomId) ==
  [ok |-> TRUE, rooms |-> MapPut(rs, roomId, [clients |-> {}, createdAt |-> now])]

\* RoomManager.createRoom: its return value and the registry after it
createRoom(rs, roomId) ==
  IF roomId \in DOMAIN rs
  THEN [ok |-> FALSE, rooms |-> rs]
  ELSE [ok |-> TRUE, rooms |-> MapPut(rs, roomId, [clients |-> {}, createdAt |-> now])]

\* the capacity test of joinRoom
roomIsFull_OffByOne(room) == Cardinality(room.clients) > RoomCapacity

roomIsFull(room) == Cardinality(room.clients) >= RoomCapacity

\* RoomManager.joinRoom: its return value, the registries and the frames after it
joinRoom(rs, cl, ws, roomId) ==
  IF roomId \notin DOMAIN rs \/ roomIsFull(rs[roomId])
  THEN [ok |-> FALSE, rooms |-> rs, clients |-> cl, frames |-> {}]
  ELSE LET rs1 == [rs EXCEPT ![roomId].clients = @ \cup {ws}] IN
       [ok |-> TRUE,
        rooms |-> rs1,
        clients |-> MapPut(cl, ws, [roomId |-> roomId, peerId |-> generatePeerId(ws)]),
        frames |-> broadcastToRoom(rs1, roomId, "peer-joined", generatePeerId(ws), "-", ws)]

\* RoomManager.leaveRoom: the registries and the frames after it
leaveRoom(rs, cl, ws) ==
  IF ws \notin DOMAIN cl
  THEN [rooms |-> rs, clients |-> cl, frames |-> {}]
  ELSE LET roomId == cl[ws].roomId IN
       IF roomId \notin DOMAIN rs
       THEN [rooms |-> rs, clients |-> MapDel(cl, ws), frames |-> {}]
       ELSE LET rs1 == [rs EXCEPT ![roomId].clients = @ \ {ws}] IN
            [rooms |-> IF rs1[roomId].clients = {} THEN MapDel(rs1, roomId) ELSE rs1,
             clients |-> MapDel(cl, ws),
             frames |-> broadcastToRoom(rs1, roomId, "peer-left", cl[ws].peerId, "-", ws)]

InitRelay ==
  /\ rooms = << >>
  /\ clients = << >>
  /\ wsState = [c \in Conns |-> "none"]
  /\ now = 0
  /\ relayOut = {}
  /\ lastReq = NoReq
  /\ sigCount = 0
  /\ wire = [c \in Conns |-> << >>]
  /\ received = [c \in Conns |-> << >>]

\* wss.on('connection')
Connection(ws) ==
  /\ UNCHANGED <<sigVars, bgVars>>
  /\ wsState[ws] = "none"
  /\ wsState' = [wsState EXCEPT ![ws] = "open"]
  /\ relayOut' = {Frame(ws, "connected", NoRoomId, generatePeerId(ws), "-")}
  /\ lastReq' = NoReq
  /\ UNCHANGED <<rooms, clients, now>>
  /\ UNCHANGED signalVars

\* handleCreateRoom; an empty message.roomId is replaced by generateRoomId()
handleCreateRoom(ws, msgRoomId) ==
  /\ UNCHANGED <<sigVars, bgVars>>
  /\ wsState[ws] = "open"
  /\ \E roomId \in (IF msgRoomId = NoRoomId THEN RoomIds ELSE {msgRoomId}) :
       LET created == createRoom(rooms, roomId)
           joined == joinRoom(created.rooms, clients, ws, roomId)
       IN
       /\ lastReq' = [conn |-> ws, type |-> "create-room", roomId |-> roomId]
       /\ IF created.ok
          THEN /\ rooms' = joined.rooms
               /\ clients' = joined.clients
               /\ relayOut' = joined.frames \cup
                    {IF joined.ok
                     THEN Frame(ws, "room-created", roomId, NoPeer, "-")
                     ELSE Frame(ws, "error", roomId, NoPeer, "Failed to join created room")}
          ELSE /\ relayOut' = {Frame(ws, "error", roomId, NoPeer, "Room already exists")}
               /\ UNCHANGED <<rooms, clients>>
  /\ UNCHANGED <<wsState, now>>
  /\ UNCHANGED signalVars

\* handleJoinRoom
handleJoinRoom(ws, roomId) ==
  /\ UNCHANGED <<sigVars, bgVars>>
  /\ wsState[ws] = "open"
  /\ lastReq' = [conn |-> ws, type |-> "join-room", roomId |-> roomId]
  /\ IF roomId = NoRoomId
     THEN /\ relayOut' = {Frame(ws, "error", NoRoomId, NoPeer, "Room ID required")}
          /\ UNCHANGED <<rooms, clients>>
     ELSE LET joined == joinRoom(rooms, clients, ws, roomId) IN
          /\ rooms' = joined.rooms
          /\ clients' = joined.clients
          /\ relayOut' = joined.frames \cup
               {IF joined.ok
                THEN Frame(ws, "room-joined", roomId, NoPeer, "-")
                ELSE Frame(ws, "error", roomId, NoPeer,
                           "Failed to join room (room not found or full)")}
  /\ UNCHANGED <<wsState, now>>
  /\ UNCHANGED signalVars

\* ws.on('close') (and ws.on('error') before it): RoomManager.leaveRoom(ws)
WsClose(ws) ==
  /\ UNCHANGED <<sigVars, bgVars>>
  /\ wsState[ws] = "open"
  /\ wsState' = [wsState EXCEPT ![ws] = "closed"]
  /\ LET left == leaveRoom(rooms, clients, ws) IN
       /\ rooms' = left.rooms
       /\ clients' = left.clients
       /\ relayOut' = left.frames
  /\ lastReq' = NoReq
  /\ UNCHANGED now
  /\ UNCHANGED signalVars

\* setInterval callback: "Cleanup old rooms periodically"
CleanupDue(rs, r, t) == t - rs[r].createdAt > MaxAgeHours /\ rs[r].clients = {}

PeriodicCleanup ==
  /\ UNCHANGED <<sigVars, bgVars>>
  /\ now < MaxTicks * TickHours
  /\ now' = now + TickHours
  /\ rooms' = [r \in { x \in DOMAIN rooms : ~CleanupDue(rooms, x, now') } |-> rooms[r]]
  /\ relayOut' = {}
  /\ lastReq' = NoReq
  /\ UNCHANGED <<clients, wsState>>
  /\ UNCHANGED signalVars

\* a frame written at the head of what the socket still has to deliver
wsSend_AtHead(queue, frame) == <<frame>> \o queue

\* client.send(messageStr): the frame follows what was written to the socket
wsSend(queue, frame) == Append(queue, frame)

\* handleSignal for the n-th signal frame the relay receives, n = sigCount + 1
handleSignal(ws) ==
  /\ UNCHANGED <<sigVars, bgVars>>
  /\ wsState[ws] = "open"
  /\ sigCount < MaxSignals
  /\ sigCount' = sigCount + 1
  /\ lastReq' = [conn |-> ws, type |-> "signal", roomId |-> NoRoomId]
  /\ IF ws \notin DOMAIN clients
     THEN /\ relayOut' = {Frame(ws, "error", NoRoomId, NoPeer, "Not in a room")}
          /\ UNCHANGED wire
     ELSE LET frames == broadcastToRoom(rooms, clients[ws].roomId, "signal",
                                        clients[ws].peerId, sigCount', ws)
          IN /\ relayOut' = frames
             /\ wire' = [c \in Conns |->
                           IF \E f \in frames : f.to = c
                           THEN wsSend(wire[c], sigCount') ELSE wire[c]]
  /\ UNCHANGED <<rooms, clients, wsState, now, received>>

\* the member's socket delivers the next frame (ws.onmessage on its side)
memberReceives(ws) ==
  /\ UNCHANGED <<sigVars, bgVars>>
  /\ wsState[ws] = "open"
  /\ wire[ws] # << >>
  /\ received' = [received EXCEPT ![ws] = Append(@, Head(wire[ws]))]
  /\ wire' = [wire EXCEPT ![ws] = Tail(@)]
  /\ UNCHANGED <<rooms, clients, wsState, now, relayOut, lastReq, sigCount>>

\* the room whose signals are followed
SignalRoom == "ROOM01"

\* the relay forwarding signals between the members of a room
NextRelaySignal ==
  \/ \E ws \in Conns : Connection(ws)
  \/ \E ws \in Conns : handleCreateRoom(ws, SignalRoom)
  \/ \E ws \in Conns : handleJoinRoom(ws, SignalRoom)
  \/ \E ws \in Conns : WsClose(ws)
  \/ \E ws \in Conns : handleSignal(ws)
  \/ \E ws \in Conns : memberReceives(ws)

\* the relay forwarding signals while connections create and join rooms
NextRelayRooms ==
  \/ \E ws \in Conns : Connection(ws)
  \/ \E ws \in Conns, r \in RoomIds : handleCreateRoom(ws, r)
  \/ \E ws \in Conns, r \in RoomIds : handleJoinRoom(ws, r)
  \/ \E ws \in Conns : WsClose(ws)
  \/ \E ws \in Conns : handleSignal(ws)

NextRelay ==
  \/ \E ws \in Conns : Connection(ws)
  \/ \E ws \in Conns, r \in RoomIds \cup {NoRoomId} : handleCreateRoom(ws, r)
  \/ \E ws \in Conns, r \in RoomIds \cup {NoRoomId} : handleJoinRoom(ws, r)
  \/ \E ws \in Conns : WsClose(ws)
  \/ PeriodicCleanup

\* ------------------------------------------------------- relay: claims
\* C8: every room has at most 2 members in every reachable state, and a
\* join-room request on a room that already has 2 members is answered with one
\* error frame to the requester only (no peer-joined to anybody) and leaves the
\* room registry and the connection registry as they were.
C8_RoomCapacity ==
  /\ [](\A r \in DOMAIN rooms : Cardinality(rooms[r].clients) <= RoomCapacity)
  /\ [][(/\ lastReq'.type = "join-room"
         /\ lastReq'.roomId \in DOMAIN rooms
         /\ Cardinality(rooms[lastReq'.roomId].clients) >= RoomCapacity)
        => (/\ rooms' = rooms
            /\ clients' = clients
            /\ relayOut' = {Frame(lastReq'.conn, "error", lastReq'.roomId, NoPeer,
                                  "Failed to join room (room not found or full)")})]_vars

\* C8 witness: a third connection has just asked to join a room whose two
\* members are both still connected, and got the error.
C8_Witness ==
  /\ lastReq.type = "join-room"
  /\ lastReq.roomId \in DOMAIN rooms
  /\ Cardinality(rooms[lastReq.roomId].clients) = RoomCapacity
  /\ lastReq.conn \notin rooms[lastReq.roomId].clients
  /\ \A m \in rooms[lastReq.roomId].clients :
       wsState[m] = "open" /\ m \in DOMAIN clients /\ clients[m].roomId = lastReq.roomId
  /\ \E f \in relayOut : f.to = lastReq.conn /\ f.type = "error"

\* C9: a create-room request with an id already in the registry is answered
\* with an error and leaves the registries (members, creation time) unchanged;
\* a join-room request for an id not in the registry is answered with an error
\* and creates no room.
C9_CreateExistingJoinMissing ==
  /\ [][(lastReq'.type = "create-room" /\ lastReq'.roomId \in DOMAIN rooms)
        => (/\ rooms' = rooms
            /\ clients' = clients
            /\ relayOut' = {Frame(lastReq'.conn, "error", lastReq'.roomId, NoPeer,
                                  "Room already exists")})]_vars
  /\ [][(/\ lastReq'.type = "join-room"
         /\ lastReq'.roomId # NoRoomId
         /\ lastReq'.roomId \notin DOMAIN rooms)
        => (/\ rooms' = rooms
            /\ clients' = clients
            /\ relayOut' = {Frame(lastReq'.conn, "error", lastReq'.roomId, NoPeer,
                                  "Failed to join room (room not found or full)")})]_vars

\* C9 witness: a create-room for a room that exists, with a member, older than
\* the request, was just refused.
C9_Witness ==
  /\ lastReq.type = "create-room"
  /\ lastReq.roomId \in DOMAIN rooms
  /\ rooms[lastReq.roomId].clients # {}
  /\ lastReq.conn \notin rooms[lastReq.roomId].clients
  /\ rooms[lastReq.roomId].createdAt < now
  /\ relayOut = {Frame(lastReq.conn, "error", lastReq.roomId, NoPeer, "Room already exists")}

\* C10: once every connection that ever joined a room has closed, the room is
\* eventually removed. Connections leave a member set only in leaveRoom, which
\* runs on close, so "every connection that ever joined has closed" is "no
\* member of the set is open"; "eventually" is bounded by the cleanup timer:
\* after a cleanup pass no room older than maxAge is left whose members have
\* all closed.
C10_AbandonedRoomsReclaimed ==
  [][now' > now =>
       \A r \in DOMAIN rooms' :
         (\A c \in rooms'[r].clients : wsState'[c] # "open")
           => ~(now' - rooms'[r].createdAt > MaxAgeHours)]_vars

\* ====================================================== signaling client
\* scheduleReconnect with the exponent not reduced by one
backoffDelay_NoMinusOne(attempts) == ReconnectDelay * 2^attempts

\* scheduleReconnect: the delay computed for this.reconnectAttempts = attempts
backoffDelay(attempts) == ReconnectDelay * 2^(attempts - 1)

\* ws.onclose with <= in the comparison with maxReconnectAttempts
shouldReconnect_OffByOne(wasClean, attempts) ==
  ~wasClean /\ attempts <= MaxReconnectAttempts

\* ws.onclose: "Only reconnect if it wasn't a clean close and we have attempts left"
shouldReconnect(wasClean, attempts) ==
  ~wasClean /\ attempts < MaxReconnectAttempts

\* A websocket: its readyState, refined by what it will fire next
\*   connecting  CONNECTING
\*   open        OPEN
\*   aborted     close() was called while CONNECTING: error, then close, follow
\*   failed      error has fired: close (not clean) follows
\*   closing     close() was called while OPEN: a clean close follows
\*   closed      close has fired
\* the index of its URL, which its handlers captured, and the state of the
\* promise of connect() whose resolve and reject its handlers captured
\* ("handed": its onerror has passed them on to the next tryConnect).
Socket(state, urlIndex, promise) ==
  [state |-> state, urlIndex |-> urlIndex, promise |-> promise]
NullWs == Socket("null", 0, "none")
PromiseStates == {"pending", "resolved", "rejected", "handed"}
\* resolve() / reject() of "new Promise((resolve, reject) => ...)": only the
\* first call settles the promise
settle(promise, outcome) == IF promise = "pending" THEN outcome ELSE promise
IsLive(s) == s.state \in {"connecting", "open", "aborted", "failed", "closing"}
SocketStates == {"connecting", "open", "aborted", "failed", "closing"}
\* the sockets whose handlers can still run: this.ws, if live, and the ones
\* this.ws no longer refers to
CurLive == IF IsLive(sigWs) THEN 1 ELSE 0
LiveCount == CurLive + BagCardinality(orphans)
Targets == (IF IsLive(sigWs) THEN {<<"this.ws", sigWs>>} ELSE {})
             \cup { <<"orphan", o>> : o \in BagToSet(orphans) }
\* socket t after its state became st and its promise pr ("closed": it is
\* dropped if orphaned)
SetThisWs(t, st, pr) ==
  IF t[1] = "this.ws" THEN Socket(st, sigWs.urlIndex, pr) ELSE sigWs
SetOrphans(t, st, pr) ==
  IF t[1] = "this.ws" THEN orphans
  ELSE IF st = "closed" THEN orphans (-) SetToBag({t[2]})
  ELSE (orphans (-) SetToBag({t[2]})) (+) SetToBag({Socket(st, t[2].urlIndex, pr)})

InitSignaling ==
  /\ urlCount \in {1, 2}
  /\ sigWs = NullWs
  /\ orphans = EmptyBag
  /\ isConnected = FALSE
  /\ reconnectAttempts = 0
  /\ timers = 0
  /\ scheduled = << >>
  /\ sigLast = "constructor"

\* ws.onerror with the fallback test off by one
hasFallback_OffByOne(urlIndex) == urlIndex + 2 < urlCount

\* ws.onerror: "if (urlIndex + 1 < this.urls.length)"
hasFallback(urlIndex) == urlIndex + 1 < urlCount

\* tryConnect(urlIndex, resolve, reject) for urlIndex < urls.length, with socket
\* registry (w, orph) before it: this.ws = new WebSocket(currentUrl); the socket
\* this.ws referred to keeps its handlers
tryConnect(w, orph, urlIndex, promise) ==
  /\ LiveCount < MaxLive
  /\ sigWs' = Socket("connecting", urlIndex, promise)
  /\ orphans' = IF IsLive(w) THEN orph (+) SetToBag({w}) ELSE orph

\* connect(), called by the owner of the client
connect ==
  /\ tryConnect(sigWs, orphans, 0, "pending")
  /\ sigLast' = "connect"
  /\ UNCHANGED <<urlCount, isConnected, reconnectAttempts, timers, scheduled>>
  /\ UNCHANGED <<relayVars, bgVars>>

\* ws.onopen
onopen(t) ==
  /\ t \in Targets /\ t[2].state = "connecting"
  /\ sigWs' = SetThisWs(t, "open", settle(t[2].promise, "resolved"))
  /\ orphans' = SetOrphans(t, "open", settle(t[2].promise, "resolved"))
  /\ isConnected' = TRUE
  /\ reconnectAttempts' = 0
  /\ scheduled' = << >>
  /\ sigLast' = "onopen"
  /\ UNCHANGED <<urlCount, timers>>
  /\ UNCHANGED <<relayVars, bgVars>>

\* ws.onerror: the connection attempt failed or was aborted, or an open
\* connection broke; the socket fires close next
onerror(t) ==
  /\ t \in Targets /\ t[2].state \in {"connecting", "open", "aborted"}
  /\ IF hasFallback(t[2].urlIndex)
     THEN tryConnect(SetThisWs(t, "failed", "handed"), SetOrphans(t, "failed", "handed"),
                     t[2].urlIndex + 1, t[2].promise)
     ELSE /\ sigWs' = SetThisWs(t, "failed", settle(t[2].promise, "rejected"))
          /\ orphans' = SetOrphans(t, "failed", settle(t[2].promise, "rejected"))
  /\ sigLast' = "onerror"
  /\ UNCHANGED <<urlCount, isConnected, reconnectAttempts, timers, scheduled>>
  /\ UNCHANGED <<relayVars, bgVars>>

\* ws.onclose: not clean after an error or when an open connection is lost;
\* clean when the closing handshake completed
onclose(t, wasClean) ==
  /\ t \in Targets
  /\ \/ t[2].state = "failed" /\ ~wasClean
     \/ t[2].state = "open"
     \/ t[2].state = "closing" /\ wasClean
  /\ sigWs' = SetThisWs(t, "closed", t[2].promise)
  /\ orphans' = SetOrphans(t, "closed", t[2].promise)
  /\ isConnected' = FALSE
  /\ IF shouldReconnect(wasClean, reconnectAttempts)
     THEN \* scheduleReconnect()
          /\ timers < MaxTimers
          /\ reconnectAttempts' = reconnectAttempts + 1
          /\ timers' = timers + 1
          /\ scheduled' = Append(scheduled, backoffDelay(reconnectAttempts + 1))
     ELSE UNCHANGED <<reconnectAttempts, timers, scheduled>>
  /\ sigLast' = "onclose"
  /\ UNCHANGED urlCount
  /\ UNCHANGED <<relayVars, bgVars>>

\* the setTimeout callback of scheduleReconnect
reconnectTimer ==
  /\ timers > 0
  /\ timers' = timers - 1
  /\ IF ~isConnected
     THEN tryConnect(sigWs, orphans, 0, "pending")
     ELSE UNCHANGED <<sigWs, orphans>>
  /\ sigLast' = "timer"
  /\ UNCHANGED <<urlCount, isConnected, reconnectAttempts, scheduled>>
  /\ UNCHANGED <<relayVars, bgVars>>

\* disconnect(): this.ws.close(1000, 'Normal closure'); this.ws = null
disconnect ==
  /\ sigWs' = NullWs
  /\ orphans' = IF ~IsLive(sigWs) THEN orphans
                ELSE orphans (+) SetToBag({Socket(
                       CASE sigWs.state = "open" -> "closing"
                         [] sigWs.state = "connecting" -> "aborted"
                         [] OTHER -> sigWs.state,
                       sigWs.urlIndex, sigWs.promise)})
  /\ isConnected' = FALSE
  /\ sigLast' = "disconnect"
  /\ UNCHANGED <<urlCount, reconnectAttempts, timers, scheduled>>
  /\ UNCHANGED <<relayVars, bgVars>>

SocketTargets == { <<w, Socket(st, u, pr)>> : w \in {"this.ws", "orphan"},
                                              st \in SocketStates, u \in {0, 1},
                                              pr \in PromiseStates }

NextSignaling ==
  \/ connect
  \/ \E t \in SocketTargets : onopen(t)
  \/ \E t \in SocketTargets : onerror(t)
  \/ \E t \in SocketTargets, wasClean \in BOOLEAN : onclose(t, wasClean)
  \/ reconnectTimer
  \/ disconnect

\* C17: every member receives the signal frames of its room in the order in
\* which the relay received them: what a member has received, followed by what
\* is in flight to it, is in increasing order of receipt by the relay.
C17_SignalsInOrder ==
  \A c \in Conns :
    LET seq == received[c] \o wire[c]
    IN \A i, j \in 1..Len(seq) : i < j => seq[i] < seq[j]

\* C17 witness: a member has received two signals of its room.
C17_Witness == \E c \in Conns : c \in DOMAIN clients /\ received[c] = <<1, 2>>

\* C33: the relay's registries agree: a connection is in the member set of a
\* room iff its entry in clients names that room.
C33_RegistriesAgree ==
  \A c \in Conns, r \in DOMAIN rooms :
    (c \in rooms[r].clients) <=> (c \in DOMAIN clients /\ clients[c].roomId = r)

\* C34: the frames the relay writes for a signal frame of a connection that is
\* in a room go to other connections only, each of them in the sender's room
\* according to the registry; for a signal frame of a connection that is in no
\* room the relay writes one error frame, to the sender.
C34_ForwardedWithinRoom ==
  lastReq.type = "signal" =>
    IF lastReq.conn \in DOMAIN clients
    THEN \A f \in relayOut :
           /\ f.type = "signal" /\ f.to # lastReq.conn
           /\ f.to \in DOMAIN clients
           /\ clients[f.to].roomId = clients[lastReq.conn].roomId
    ELSE relayOut = {Frame(lastReq.conn, "error", NoRoomId, NoPeer, "Not in a room")}

\* ---------------------------------------------------- signaling: claims
\* C6: the delays scheduled by consecutive unexpected closes since the last
\* successful open are 1000, 2000, 4000, 8000, 16000 ms, in that order: the
\* k-th is 1000 * 2^(k-1), and there are at most five.
C6_BackoffSequence ==
  /\ Len(scheduled) <= 5
  /\ \A k \in 1..Len(scheduled) :
       scheduled[k] = <<1000, 2000, 4000, 8000, 16000>>[k]

\* C6 witness: five reconnects were scheduled with no open in between.
C6_Witness == scheduled = <<1000, 2000, 4000, 8000, 16000>>

\* no socket is connecting or open, no timer is pending, five reconnects were
\* scheduled since the last open
Exhausted ==
  /\ reconnectAttempts = MaxReconnectAttempts
  /\ LiveCount = 0
  /\ timers = 0
  /\ ~isConnected

\* C7: reconnectAttempts never exceeds 5 and no sixth timer is armed; once the
\* five scheduled reconnects have all failed, the client stays disconnected, with
\* no socket and no timer, until connect() is called.
C7_StopsAfterFive ==
  /\ [](reconnectAttempts <= 5 /\ Len(scheduled) <= 5)
  /\ [][(Exhausted /\ sigLast' # "connect") => Exhausted']_vars

\* C7 witness: the fifth scheduled reconnect has fired and failed.
C7_Witness == Exhausted /\ sigLast = "onclose" /\ scheduled = <<1000, 2000, 4000, 8000, 16000>>

\* C15: leaveRoom() closes the signaling connection with disconnect(), which
\* leaves this.ws null; until the owner calls connect() again for the next
\* createRoom/joinRoom, no handler or timer of the client opens a connection
\* (this.ws stays null).
C15_NothingReopensAfterLeave ==
  [][(sigWs = NullWs /\ sigLast' # "connect") => sigWs' = NullWs]_vars

\* the websockets the client has created and not forgotten
Sockets == ({sigWs} \cup BagToSet(orphans)) \ {NullWs}

\* C29: a websocket for candidate k > 0 is created only by the error handler
\* of the websocket for candidate k - 1; the promise of connect() is resolved
\* once a candidate is open, is rejected only through the failure of the last
\* candidate, and is pending only while a candidate is still connecting.
C29_CandidatesInOrder ==
  /\ [](\A s \in Sockets :
          /\ s.state \in {"open", "closing"} => s.promise = "resolved"
          /\ s.promise = "rejected" =>
                s.urlIndex = urlCount - 1 /\ s.state \in {"failed", "closed"}
          /\ s.promise = "pending" => s.state \in {"connecting", "aborted"}
          /\ s.promise = "handed" =>
                s.urlIndex + 1 < urlCount /\ s.state \in {"failed", "closed"})
  /\ [][(sigWs' # sigWs /\ sigWs'.state = "connecting" /\ sigWs'.urlIndex > 0) =>
          /\ sigLast' = "onerror"
          /\ Socket("failed", sigWs'.urlIndex - 1, "handed") \in BagToSet(orphans')
      ]_vars

\* C29 witness: the first candidate failed and the second one is open.
C29_Witness ==
  /\ urlCount = 2
  /\ sigWs = Socket("open", 1, "resolved")
  /\ Socket("failed", 0, "handed") \in BagToSet(orphans)

\* the number of websockets of the client that are connecting or open
ActiveCount ==
  (IF sigWs.state \in {"connecting", "open"} THEN 1 ELSE 0)
    + BagCardinality([s \in {o \in BagToSet(orphans) : o.state \in {"connecting", "open"}}
                        |-> orphans[s]])

\* C30: the socket handlers and the backoff timers of a client with at most
\* one websocket connecting or open leave it with at most one: the close
\* event of a failed candidate and a timer that fires during a connection
\* attempt start no second attempt in parallel.
C30_OneSocketAtATime ==
  [][(sigLast' \in {"onopen", "onerror", "onclose", "timer"} /\ ActiveCount <= 1)
       => ActiveCount' <= 1]_vars

\* C31: the callback that runs next after disconnect(), unless it is a
\* connect() of the owner, creates no websocket: this.ws stays null and the
\* client has no more websockets than before, also when that callback is a
\* reconnect timer that was pending when disconnect() was called.
C31_DisconnectIsFinal ==
  [][(sigLast = "disconnect" /\ sigLast' # "connect")
       => (sigWs' = NullWs /\ LiveCount' <= LiveCount)]_vars

\* ==================================================== background service
Transports == {"direct", "relay"}
\* crypto.randomUUID(): the n-th id drawn on each side
LocalIds == { <<"self", n>> : n \in 1..MaxSends }
PeerIds == { <<"peer", n>> : n \in 1..NumPeerPayloads }
\* the room code of the session
TheRoom == "ROOM01"
\* a property the object does not have
Undefined == "undefined"

\* ------------------------------------------------------------ RTCManager
\* no RTCManager (rtcManager === null)
\* (replaced: a peer connection of this manager was overwritten by a later
\* initialize without close() having been called on it; remoteDescription:
\* the peer connection has a remote description; iceDropped: the manager was
\* handed an ICE candidate that it did not add to a peer connection)
NullRtc == [live |-> FALSE, isInitiator |-> FALSE, connectionState |-> "closed",
            peerConnection |-> FALSE, dataChannel |-> "null", replaced |-> FALSE,
            remoteDescription |-> FALSE, iceDropped |-> FALSE]
\* new RTCManager(config): field initialisers
NewRtc == [live |-> TRUE, isInitiator |-> FALSE, connectionState |-> "new",
           peerConnection |-> FALSE, dataChannel |-> "null", replaced |-> FALSE,
           remoteDescription |-> FALSE, iceDropped |-> FALSE]

\* RTCManager.initialize without the test of this.isInitiator before createOffer
createsOffer_Always(isInitiator) == TRUE

\* RTCManager.initialize: "if (this.isInitiator) { createDataChannel(); await createOffer() }"
createsOffer(isInitiator) == isInitiator

\* RTCManager.initialize: "this.peerConnection = new RTCPeerConnection(..)"
\* overwrites the field; nothing closes the connection it referred to
replacesOpen(r) == r.peerConnection

\* RTCManager.initialize(isInitiator): the manager afterwards
rtcInitialize(r, isInitiator) ==
  [r EXCEPT !.isInitiator = isInitiator,
            !.peerConnection = TRUE,
            !.replaced = @ \/ replacesOpen(r),
            !.remoteDescription = FALSE,
            !.dataChannel = IF createsOffer(isInitiator) THEN "connecting" ELSE @]

\* RTCManager.isConnected()
rtcIsConnected(r) == r.live /\ r.dataChannel = "open"

\* the role of a session, and of the current one
RoleOf(initiator) == IF initiator THEN "Initiator" ELSE "Joiner"
Role == RoleOf(isRoomInitiator)

\* the offers emitted so far, after initialize(isInitiator) ran in a session
\* with the given role (RTCManager.createOffer: onSignal({type: 'offer'}))
offersAfter(isInitiator, role) ==
  IF createsOffer(isInitiator) THEN offersBy \cup {role} ELSE offersBy

\* getConnectionStatus().connected; with the manager in the popup, the state
\* its RTCManager reports
Connected ==
  \/ rtcIsConnected(rtcManager)
  \/ variant = "background" /\ ~webrtc /\ isRelayConnected

\* getConnectionStatus().status
getConnectionStatus ==
  IF variant = "background"
  THEN IF rtcIsConnected(rtcManager) \/ (~webrtc /\ isRelayConnected)
       THEN "connected"
       ELSE IF signalingConnected /\ currentRoomId # NoRoomId THEN "connecting"
       ELSE "disconnected"
  ELSE IF signalingConnected /\ currentRoomId # NoRoomId THEN "connecting"
       ELSE "disconnected"

\* the accepted messages after which the session has been connected
Owed(acc) == owed \cup (IF Connected' THEN acc ELSE {})

\* ------------------------------------------------------------ the store
\* "timestamp: Date.now()" where the sender builds the message: the sender's
\* clock, which ticks once per message it builds
Timestamp(id) == id[2]

Message(id, from, roomId, type) ==
  [id |-> id, from |-> from, roomId |-> roomId, type |-> type,
   timestamp |-> Timestamp(id), delivered |-> Undefined]

\* the order of the primary keys, which getAll returns equal timestamps in
KeyBefore(a, b) == a[1] = "peer" /\ b[1] = "self"

\* StorageManager.getMessages(roomId, limit = 100):
\* index.getAll(roomId).sort((a, b) => a.timestamp - b.timestamp).slice(-limit)
getMessages(st, roomId, limit) ==
  LET inRoom == { r \in st : r.roomId = roomId }
      after(r) == { q \in inRoom : \/ q.timestamp > r.timestamp
                                   \/ /\ q.timestamp = r.timestamp
                                      /\ KeyBefore(r.id, q.id) }
  IN { r \in inRoom : Cardinality(after(r)) < limit }

\* objectStore.add-like save: the record is added next to what is stored
saveMessage_Add(st, message) == st \cup {message}

\* StorageManager.saveMessage: store.put on a store with keyPath 'id'
saveMessage(st, message) == { r \in st : r.id # message.id } \cup {message}

\* RTCManager.sendMessage: the DataChannelMessage on the wire
DataChannelMessage(id) == Message(id, Undefined, Undefined, "message")
\* sendRelayMessage(message): the sender's message object is the frame's data
RelayData(id) == Message(id, "self", TheRoom, Undefined)
\* { ...message, from: 'peer', roomId: this.currentRoomId }
incomingMessage(message, roomId) ==
  [message EXCEPT !.from = "peer", !.roomId = roomId]

InitService ==
  /\ variant \in {"background", "popup"}
  /\ webrtc \in (IF variant = "popup" THEN {TRUE} ELSE BOOLEAN)
  /\ currentRoomId = NoRoomId
  /\ isRoomInitiator = FALSE
  /\ signalingConnected = FALSE
  /\ inRelayRoom = FALSE
  /\ peerInRoom = FALSE
  /\ isRelayConnected = FALSE
  /\ popupPort = FALSE
  /\ openPorts = 0
  /\ earlierClients = [rooms |-> {}, saved |-> {}]
  /\ saving = {}
  /\ popupIsInitiator = FALSE
  /\ pendingSignals = << >>
  /\ hasPopupConnectedBefore = FALSE
  /\ pendingMessages = << >>
  /\ rtcManager = NullRtc
  /\ initTimers = 0
  /\ offersBy = {}
  /\ store = {}
  /\ sendCount = 0
  /\ accepted = {}
  /\ owed = {}
  /\ directOut = {}
  /\ relayUp = {}
  /\ peerReceived = {}
  /\ ackIn = {}
  /\ peerSent = {}
  /\ directIn = {}
  /\ relayIn = {}
  /\ handed = [p \in PeerIds |-> 0]
  /\ savedVia = [p \in PeerIds |-> {}]
  /\ missed = {}
  /\ popupOut = << >>
  /\ signalOut = << >>
  /\ ackOut = {}
  /\ typingOut = {}
  /\ roomRequest = "none"
  /\ callerResult = "none"
  /\ sendResponse = "none"

\* popupPort.postMessage({ type, payload })
PortMessage(type, payload) == [type |-> type, payload |-> payload]
\* "for (const item of queue) popupPort.postMessage({ type, payload: item })"
Posts(type, queue) == [i \in 1..Len(queue) |-> PortMessage(type, queue[i])]

\* an unshift-like queueing: the item goes to the head of the queue
push_AtHead(queue, item) == <<item>> \o queue

\* this.pendingSignals.push(signal), this.pendingMessages.push(incomingMessage)
push(queue, item) == Append(queue, item)

\* SignalingClient.sendSignal(signal): the frame goes out if the client is
\* connected (and has its room)
sendSignal(connected, signal) == IF connected THEN <<signal>> ELSE << >>

\* a peer-reconnected that always names the creator
reconnectedSignal_AsInitiator(isInitiator) ==
  [type |-> "peer-reconnected", isInitiator |-> "true", dataIsInitiator |-> Undefined]

\* "{ type: 'peer-reconnected', isInitiator: this.isRoomInitiator }"
reconnectedSignal(isInitiator) ==
  [type |-> "peer-reconnected",
   isInitiator |-> IF isInitiator THEN "true" ELSE "false",
   dataIsInitiator |-> Undefined]

\* a handler that posts nothing to the popup and sends no signal
Quiet == popupOut' = << >> /\ signalOut' = << >> /\ ackOut' = {} /\ typingOut' = {}

\* notifyRTCReady(): the peer-reconnected it sends for a popup that was
\* connected before in this room
notifyRTCReady(connected, isInitiator) ==
  IF hasPopupConnectedBefore
  THEN sendSignal(connected, reconnectedSignal(isInitiator))
  ELSE << >>

\* PopupRTCManager.initialize(roomId, isInitiator), called by the popup with the
\* role the service reports, and the RTC_READY it posts (notifyRTCReady)
popupInitialize(isInitiator, connected) ==
  /\ popupIsInitiator' = isInitiator
  /\ signalOut' = notifyRTCReady(connected, isInitiator)
  /\ rtcManager' = IF isInitiator THEN rtcInitialize(NewRtc, TRUE) ELSE NewRtc
  /\ offersBy' = IF isInitiator THEN offersAfter(TRUE, RoleOf(isInitiator)) ELSE offersBy
  /\ pendingSignals' = << >>
  /\ hasPopupConnectedBefore' = TRUE

\* initializeRTC() of the service that hosts the RTCManager
initializeRTC ==
  /\ rtcManager' = IF ~webrtc THEN NullRtc
                   ELSE IF isRoomInitiator' THEN rtcInitialize(NewRtc, TRUE)
                   ELSE NewRtc
  /\ offersBy' = IF webrtc /\ isRoomInitiator' THEN offersAfter(TRUE, RoleOf(isRoomInitiator')) ELSE offersBy
  /\ UNCHANGED <<popupIsInitiator, pendingSignals, hasPopupConnectedBefore>>

\* sendToBackground('CREATE_ROOM' | 'JOIN_ROOM'): the request reaches
\* handleMessage, whose createRoom() / joinRoom() awaits the relay's answer
sendToBackground(type) ==
  /\ roomRequest = "none" /\ currentRoomId = NoRoomId
  /\ roomRequest' = type
  /\ callerResult' = "waiting"
  /\ UNCHANGED <<variant, webrtc, roomVars, popupVars, rtcVars, store, outVars,
                 inVars, sendResponse>>
  /\ UNCHANGED <<asyncVars, relayVars, sigVars>>
  /\ Quiet

\* the 5000 ms timer of sendToBackground: resolve({ error: 'Request timeout' });
\* the service goes on awaiting the relay's answer
requestTimeout ==
  /\ callerResult = "waiting"
  /\ callerResult' = "Request timeout"
  /\ UNCHANGED <<variant, webrtc, roomVars, popupVars, rtcVars, store, outVars,
                 inVars, roomRequest, sendResponse>>
  /\ UNCHANGED <<asyncVars, relayVars, sigVars>>
  /\ Quiet

\* what the caller has after the service answered its request
answered(result) == IF callerResult = "waiting" THEN result ELSE callerResult

\* createRoom() / joinRoom(roomId) failing: connect() rejected ("connect"), or
\* the client connected and the relay answered with an error ("relay"); the
\* catch block returns the error and leaves this.signalingClient as it is
roomRequestFails(cause) ==
  /\ roomRequest # "none"
  /\ roomRequest' = "none"
  /\ callerResult' = answered("error")
  /\ signalingConnected' = (cause = "relay")
  /\ UNCHANGED <<variant, webrtc, currentRoomId, isRoomInitiator, inRelayRoom,
                 peerInRoom, isRelayConnected, popupVars, rtcVars, store, outVars,
                 inVars, sendResponse>>
  /\ UNCHANGED <<asyncVars, relayVars, sigVars>>
  /\ Quiet

\* createRoom() / joinRoom(roomId) succeeding: the signaling client connected
\* and the relay answered room-created / room-joined
enterRoom(initiator, peerPresent) ==
  /\ currentRoomId = NoRoomId
  /\ roomRequest = (IF initiator THEN "CREATE_ROOM" ELSE "JOIN_ROOM")
  /\ roomRequest' = "none"
  /\ callerResult' = answered("success")
  /\ currentRoomId' = TheRoom
  /\ isRoomInitiator' = initiator
  /\ signalingConnected' = TRUE
  /\ inRelayRoom' = TRUE
  /\ peerInRoom' = peerPresent
  /\ IF variant = "background" THEN initializeRTC /\ signalOut' = << >>
     ELSE IF popupPort THEN popupInitialize(initiator, TRUE)
     ELSE /\ signalOut' = << >>
          /\ UNCHANGED <<popupIsInitiator, pendingSignals, hasPopupConnectedBefore,
                         rtcManager, offersBy>>
  /\ popupOut' = << >>
  /\ ackOut' = {} /\ typingOut' = {}
  /\ accepted' = {}
  /\ owed' = {}
  /\ UNCHANGED <<variant, webrtc, isRelayConnected, popupPort, openPorts, pendingMessages,
                 initTimers, store, sendCount, directOut, relayUp, peerReceived, ackIn, inVars>>
  /\ UNCHANGED <<asyncVars, relayVars, sigVars, sendResponse>>

bgCreateRoom == enterRoom(TRUE, FALSE)

bgJoinRoom == \E peerPresent \in BOOLEAN : enterRoom(FALSE, peerPresent)

\* leaveRoom()
bgLeaveRoom ==
  /\ currentRoomId # NoRoomId
  /\ rtcManager' = IF variant = "background" \/ popupPort THEN NullRtc ELSE rtcManager
  /\ signalingConnected' = FALSE
  /\ inRelayRoom' = FALSE
  /\ peerInRoom' = FALSE
  /\ currentRoomId' = NoRoomId
  /\ isRoomInitiator' = FALSE
  /\ isRelayConnected' = FALSE
  /\ pendingMessages' = << >>
  /\ pendingSignals' = << >>
  /\ hasPopupConnectedBefore' = FALSE
  /\ accepted' = {}
  /\ owed' = {}
  /\ relayIn' = {}
  /\ directIn' = {}
  /\ UNCHANGED <<variant, webrtc, popupPort, openPorts, popupIsInitiator, initTimers, offersBy,
                 store, sendCount, directOut, relayUp, peerReceived, ackIn,
                 peerSent, handed, savedVia, missed>>
  /\ UNCHANGED <<asyncVars, relayVars, sigVars, callerVars>>
  /\ Quiet

\* handleConnection(port) for the popup's port, and handlePopupConnection()
popupAttach ==
  /\ ~popupPort /\ openPorts = 0
  /\ popupPort' = TRUE
  /\ openPorts' = 1
  /\ ackOut' = {} /\ typingOut' = {}
  /\ IF variant = "background"
     THEN \* the pending messages are posted as PENDING_MESSAGE and dropped
          /\ popupOut' = Posts("PENDING_MESSAGE", pendingMessages)
          /\ pendingMessages' = << >>
          /\ signalOut' = << >>
          /\ UNCHANGED <<popupIsInitiator, pendingSignals, hasPopupConnectedBefore,
                         rtcManager, offersBy>>
     ELSE \* the queued signals go to the new PopupRTCManager, which has no role
          \* yet; the popup then initializes it if a room is active
          /\ popupOut' = Posts("SIGNALING_MESSAGE", pendingSignals)
          /\ UNCHANGED pendingMessages
          /\ IF currentRoomId # NoRoomId
             THEN popupInitialize(isRoomInitiator, signalingConnected)
             ELSE /\ pendingSignals' = << >>
                  /\ signalOut' = << >>
                  /\ UNCHANGED <<popupIsInitiator, hasPopupConnectedBefore,
                                 rtcManager, offersBy>>
  /\ UNCHANGED <<variant, webrtc, roomVars, initTimers, store, outVars, inVars>>
  /\ UNCHANGED <<asyncVars, relayVars, sigVars, callerVars>>

\* a disconnect handler that closes the RTCManager with the port
portDisconnected_ClosesRtc(r) == NullRtc

\* the RTCManager after port.onDisconnect ("this.popupPort = null"): the one the
\* service holds is not touched, the one in the popup goes with the popup
portDisconnected(r) == IF variant = "popup" THEN NullRtc ELSE r

\* port.onDisconnect; a popup that closes takes its PopupRTCManager, the
\* RTCManager in it and their timers with it
popupDetach ==
  /\ openPorts > 0
  /\ popupPort' = FALSE
  /\ openPorts' = 0
  /\ rtcManager' = portDisconnected(rtcManager)
  /\ IF variant = "popup"
     THEN /\ popupIsInitiator' = FALSE
          /\ initTimers' = 0
          /\ directIn' = {}
     ELSE UNCHANGED <<popupIsInitiator, initTimers, directIn>>
  /\ UNCHANGED <<variant, webrtc, roomVars, pendingSignals, hasPopupConnectedBefore,
                 pendingMessages, offersBy, store, outVars,
                 peerSent, relayIn, handed, savedVia, missed>>
  /\ UNCHANGED <<asyncVars, relayVars, sigVars, callerVars>>
  /\ Quiet

\* handleConnection for a further port named 'popup' of the open popup (the
\* App and the PopupRTCManager connect one each): "this.popupPort = port", and
\* what is queued is posted to it
portConnects ==
  /\ openPorts > 0 /\ openPorts < PopupPorts
  /\ popupPort' = TRUE
  /\ openPorts' = openPorts + 1
  /\ popupOut' = IF variant = "background"
                 THEN Posts("PENDING_MESSAGE", pendingMessages)
                 ELSE Posts("SIGNALING_MESSAGE", pendingSignals)
  /\ pendingMessages' = IF variant = "background" THEN << >> ELSE pendingMessages
  /\ pendingSignals' = IF variant = "background" THEN pendingSignals ELSE << >>
  /\ signalOut' = << >> /\ ackOut' = {} /\ typingOut' = {}
  /\ UNCHANGED <<variant, webrtc, roomVars, popupIsInitiator, hasPopupConnectedBefore,
                 rtcVars, store, outVars, inVars>>
  /\ UNCHANGED <<asyncVars, relayVars, sigVars, callerVars>>

\* port.onDisconnect of one of the popup's ports while the popup stays open
\* with another: "this.popupPort = null", whichever port it is
portDisconnects ==
  /\ openPorts > 1
  /\ popupPort' = FALSE
  /\ openPorts' = openPorts - 1
  /\ UNCHANGED <<variant, webrtc, roomVars, popupIsInitiator, pendingSignals,
                 hasPopupConnectedBefore, pendingMessages, rtcVars, store, outVars,
                 inVars>>
  /\ UNCHANGED <<asyncVars, relayVars, sigVars, callerVars>>
  /\ Quiet

\* a signal as SignalingClient.handleSignalMessage passes it to onSignal
Signal(type, isInitiator, dataIsInitiator) ==
  [type |-> type, isInitiator |-> isInitiator, dataIsInitiator |-> dataIsInitiator]
Signals ==
  { Signal(t, Undefined, Undefined) :
      t \in {"peer-joined", "peer-left", "offer", "answer", "ice-candidate"} }
  \cup { Signal("peer-reconnected", "true", Undefined),
         Signal("peer-reconnected", "false", Undefined),
         Signal("peer-reconnected", Undefined, "false") }

\* handleRTCSignal: "signal.isInitiator || signal.data?.isInitiator"
peerWasInitiator(signal) ==
  IF signal.isInitiator = "true" THEN "true" ELSE signal.dataIsInitiator

\* RTCManager.handleSignal(signal): "if (!this.peerConnection) return"; offer
\* and answer set the remote description; addIceCandidate on a connection
\* without a remote description rejects, which the catch block logs
rtcHandleSignal(r, signal) ==
  IF ~r.peerConnection
  THEN [r EXCEPT !.iceDropped = @ \/ signal.type = "ice-candidate"]
  ELSE CASE signal.type \in {"offer", "answer"} -> [r EXCEPT !.remoteDescription = TRUE]
         [] signal.type = "ice-candidate" ->
              [r EXCEPT !.iceDropped = @ \/ ~r.remoteDescription]
         [] OTHER -> r

\* the peer-reconnected branch of the handler that has the RTCManager:
\* "peerWasInitiator === false && this.isRoomInitiator && this.rtcManager" in
\* the service, "peerWasInitiator === false && this.isInitiator" in the popup,
\* where peerWasInitiator is signal.isInitiator
reinitializesOnReconnect(signal) ==
  IF variant = "background"
  THEN peerWasInitiator(signal) = "false" /\ isRoomInitiator /\ rtcManager.live
  ELSE signal.isInitiator = "false" /\ popupIsInitiator

\* the offer branch: "currentState === 'new' || 'closed' || 'disconnected'"
reinitializesOnOffer(r) == r.connectionState \in {"new", "closed", "disconnected"}

\* setTimeout(() => { if (this.rtcManager) this.rtcManager.initialize(..) }, 100)
setInitTimer ==
  /\ initTimers < MaxInitTimers
  /\ initTimers' = initTimers + 1

\* BackgroundService.handleRTCSignal of the service that hosts the RTCManager,
\* after the onSignal wrapper of initializeSignaling
handleRTCSignal(signal) ==
  /\ UNCHANGED <<popupIsInitiator, pendingSignals>>
  /\ IF ~webrtc \/ ~rtcManager.live
     THEN /\ isRelayConnected' = CASE signal.type = "peer-joined" -> TRUE
                                   [] signal.type = "peer-left" -> FALSE
                                   [] OTHER -> isRelayConnected
          /\ UNCHANGED <<rtcManager, initTimers>>
     ELSE /\ UNCHANGED isRelayConnected
          /\ CASE signal.type = "peer-joined" ->
                    /\ IF isRoomInitiator THEN setInitTimer ELSE UNCHANGED initTimers
                    /\ UNCHANGED rtcManager
               [] signal.type = "peer-reconnected" ->
                    /\ IF reinitializesOnReconnect(signal)
                       THEN setInitTimer ELSE UNCHANGED initTimers
                    /\ UNCHANGED rtcManager
               [] signal.type = "offer" ->
                    /\ rtcManager' = rtcHandleSignal(IF reinitializesOnOffer(rtcManager)
                                                     THEN rtcInitialize(rtcManager, FALSE)
                                                     ELSE rtcManager, signal)
                    /\ UNCHANGED initTimers
               [] OTHER -> /\ rtcManager' = rtcHandleSignal(rtcManager, signal)
                           /\ UNCHANGED initTimers
  /\ offersBy' = IF ~webrtc \/ ~rtcManager.live THEN offersBy
                 ELSE IF signal.type = "offer" /\ reinitializesOnOffer(rtcManager)
                 THEN offersAfter(FALSE, Role) ELSE offersBy

\* PopupRTCManager.handleSignalingMessage
handleSignalingMessage(signal) ==
  /\ UNCHANGED <<popupIsInitiator, pendingSignals, isRelayConnected>>
  /\ CASE signal.type = "peer-joined" ->
            /\ IF popupIsInitiator THEN setInitTimer ELSE UNCHANGED initTimers
            /\ UNCHANGED <<rtcManager, offersBy>>
       [] signal.type = "peer-reconnected" ->
            /\ IF reinitializesOnReconnect(signal)
               THEN setInitTimer ELSE UNCHANGED initTimers
            /\ UNCHANGED <<rtcManager, offersBy>>
       [] signal.type = "offer" ->
            /\ rtcManager' = rtcHandleSignal(IF ~rtcManager.live
                                             THEN rtcInitialize(NewRtc, FALSE)
                                             ELSE IF reinitializesOnOffer(rtcManager)
                                             THEN rtcInitialize(rtcManager, FALSE)
                                             ELSE rtcManager, signal)
            /\ offersBy' = IF ~rtcManager.live \/ reinitializesOnOffer(rtcManager)
                           THEN offersAfter(FALSE, Role) ELSE offersBy
            /\ UNCHANGED initTimers
       [] OTHER -> /\ rtcManager' = IF rtcManager.live
                                      THEN rtcHandleSignal(rtcManager, signal)
                                      ELSE rtcManager
                   /\ UNCHANGED <<initTimers, offersBy>>

\* signalingClient.onSignal as initializeSignaling sets it, for a frame the
\* relay sends to the service
onSignal(signal) ==
  /\ currentRoomId # NoRoomId /\ signalingConnected /\ inRelayRoom
  /\ peerInRoom' = CASE signal.type = "peer-joined" -> TRUE
                     [] signal.type = "peer-left" -> FALSE
                     [] OTHER -> peerInRoom
  /\ IF variant = "background"
     THEN handleRTCSignal(signal) /\ popupOut' = << >>
     ELSE IF popupPort
     THEN /\ popupOut' = <<PortMessage("SIGNALING_MESSAGE", signal)>>
          /\ handleSignalingMessage(signal)
     ELSE /\ Len(pendingSignals) < MaxPendingSignals
          /\ pendingSignals' = push(pendingSignals, signal)
          /\ popupOut' = << >>
          /\ UNCHANGED <<popupIsInitiator, isRelayConnected, rtcManager,
                         initTimers, offersBy>>
  /\ signalOut' = << >>
  /\ ackOut' = {} /\ typingOut' = {}
  /\ UNCHANGED <<variant, webrtc, currentRoomId, isRoomInitiator, signalingConnected,
                 inRelayRoom, popupPort, openPorts, hasPopupConnectedBefore, pendingMessages,
                 store, sendCount, accepted, directOut, relayUp, peerReceived, ackIn, inVars>>
  /\ UNCHANGED <<asyncVars, relayVars, sigVars, callerVars>>
  /\ owed' = Owed(accepted)

\* the callback of setInitTimer
initTimerFires ==
  /\ initTimers > 0
  /\ initTimers' = initTimers - 1
  /\ LET flag == IF variant = "background" THEN isRoomInitiator ELSE popupIsInitiator
     IN IF rtcManager.live
        THEN /\ rtcManager' = rtcInitialize(rtcManager, flag)
             /\ offersBy' = offersAfter(flag, Role)
        ELSE UNCHANGED <<rtcManager, offersBy>>
  /\ UNCHANGED <<variant, webrtc, roomVars, popupVars, store, sendCount, accepted,
                 directOut, relayUp, peerReceived, ackIn, inVars>>
  /\ UNCHANGED <<asyncVars, relayVars, sigVars, callerVars>>
  /\ Quiet
  /\ owed' = Owed(accepted)

\* peerConnection.onconnectionstatechange
connectionStateChange(state) ==
  /\ rtcManager.live /\ rtcManager.peerConnection
  /\ state # rtcManager.connectionState
  /\ rtcManager' = [rtcManager EXCEPT !.connectionState = state]
  /\ UNCHANGED <<variant, webrtc, roomVars, popupVars, initTimers, offersBy,
                 store, outVars, inVars>>
  /\ UNCHANGED <<asyncVars, relayVars, sigVars, callerVars>>
  /\ Quiet

\* the data channel reaches readyState 'open' (created by the initiator,
\* received through ondatachannel otherwise)
dataChannelOpens ==
  /\ rtcManager.live /\ rtcManager.peerConnection /\ peerInRoom
  /\ IF rtcManager.isInitiator THEN rtcManager.dataChannel = "connecting"
     ELSE rtcManager.dataChannel # "open"
  /\ rtcManager' = [rtcManager EXCEPT !.dataChannel = "open"]
  /\ UNCHANGED <<variant, webrtc, roomVars, popupVars, initTimers, offersBy,
                 store, sendCount, accepted, directOut, relayUp, peerReceived, ackIn, inVars>>
  /\ UNCHANGED <<asyncVars, relayVars, sigVars, callerVars>>
  /\ Quiet
  /\ owed' = Owed(accepted)

\* the data channel closes
dataChannelCloses ==
  /\ rtcIsConnected(rtcManager)
  /\ rtcManager' = [rtcManager EXCEPT !.dataChannel = "closed"]
  /\ directIn' = {}
  /\ UNCHANGED <<variant, webrtc, roomVars, popupVars, initTimers, offersBy,
                 store, outVars, peerSent, relayIn, handed, savedVia, missed>>
  /\ UNCHANGED <<asyncVars, relayVars, sigVars, callerVars>>
  /\ Quiet

\* the signaling socket closes; the relay's close handler takes it out of the room
signalingDrops ==
  /\ signalingConnected
  /\ signalingConnected' = FALSE
  /\ inRelayRoom' = FALSE
  /\ relayIn' = {}
  /\ UNCHANGED <<variant, webrtc, currentRoomId, isRoomInitiator, peerInRoom,
                 isRelayConnected, popupVars, rtcVars, store, outVars,
                 peerSent, directIn, handed, savedVia, missed>>
  /\ UNCHANGED <<asyncVars, relayVars, sigVars, callerVars>>
  /\ Quiet

\* a scheduled reconnect of the signaling client succeeds; nothing joins the
\* room again
signalingReconnects ==
  /\ currentRoomId # NoRoomId /\ ~signalingConnected
  /\ signalingConnected' = TRUE
  /\ UNCHANGED <<variant, webrtc, currentRoomId, isRoomInitiator, inRelayRoom,
                 peerInRoom, isRelayConnected, popupVars, rtcVars, store,
                 outVars, inVars>>
  /\ UNCHANGED <<asyncVars, relayVars, sigVars, callerVars>>
  /\ Quiet

\* SignalingClient.sendRelayMessage: the frames in flight afterwards
sendRelayMessage(up, id) == IF signalingConnected THEN up \cup {id} ELSE up

\* the transport sendMessage picks: "direct", or "relay" (sendRelayMessage is
\* called), or "none"; sendOk: dataChannel.send did not throw
sendRoute(sendOk) ==
  IF variant = "background"
  THEN IF rtcIsConnected(rtcManager) /\ sendOk THEN "direct" ELSE "relay"
  ELSE IF ~popupPort THEN "relay"
       ELSE \* SEND_RTC_MESSAGE: PopupRTCManager.sendRTCMessage
            IF ~rtcManager.live THEN "none"
            ELSE IF rtcIsConnected(rtcManager) /\ sendOk THEN "direct"
            ELSE \* RTC_SEND_FAILED: handleRTCSendFailure
                 "relay"

\* a sendMessage that reports an error when the payload went out on no transport
sendMessageResult_TransportError(route, transmitted) ==
  IF transmitted THEN "success" ELSE "error"

\* sendMessage in a room: "return { success: true }" after either branch
sendMessageResult(route, transmitted) == "success"

\* a sendMessage without its no-room guard
hasRoom_Always(roomId) == TRUE

\* sendMessage: "if (!this.currentRoomId)"
hasRoom(roomId) == roomId # NoRoomId

\* sendMessage(text) without a room: "return { error: 'Not connected to a room' }"
bgSendMessageNoRoom ==
  /\ ~hasRoom(currentRoomId)
  /\ sendResponse' = "Not connected to a room"
  /\ UNCHANGED <<variant, webrtc, roomVars, popupVars, rtcVars, store, outVars,
                 inVars, roomRequest, callerResult>>
  /\ UNCHANGED <<asyncVars, relayVars, sigVars>>
  /\ Quiet

\* sendMessage(text)
bgSendMessage(sendOk) ==
  /\ sendCount < MaxSends
  /\ hasRoom(currentRoomId)
  /\ LET id == <<"self", sendCount + 1>>
         route == sendRoute(sendOk)
     IN /\ store' = saveMessage(store, Message(id, "self", currentRoomId, Undefined))
        /\ directOut' = IF route = "direct" THEN directOut \cup {id} ELSE directOut
        /\ relayUp' = IF route = "relay" THEN sendRelayMessage(relayUp, id) ELSE relayUp
        /\ accepted' = accepted \cup {id}
        /\ sendResponse' = sendMessageResult(route,
                              route = "direct" \/ (route = "relay" /\ signalingConnected))
  /\ sendCount' = sendCount + 1
  /\ UNCHANGED <<variant, webrtc, roomVars, popupVars, rtcVars, owed, peerReceived, ackIn, inVars>>
  /\ UNCHANGED <<asyncVars, relayVars, sigVars, roomRequest, callerResult>>
  /\ Quiet

\* the relay's handleRelayMessage for a frame of the service: broadcast to the
\* other member of the sender's room
relayForwards(id) ==
  /\ id \in relayUp
  /\ relayUp' = relayUp \ {id}
  /\ peerReceived' = IF inRelayRoom /\ peerInRoom THEN peerReceived \cup {id}
                     ELSE peerReceived
  /\ UNCHANGED <<variant, webrtc, roomVars, popupVars, rtcVars, store,
                 sendCount, accepted, owed, directOut, ackIn, inVars>>
  /\ UNCHANGED <<asyncVars, relayVars, sigVars, callerVars>>
  /\ Quiet

\* the data channel delivers a payload of the service to the peer, whose
\* RTCManager answers it with an ack (handleDataChannelMessage: sendAck)
directDelivers(id) ==
  /\ id \in directOut
  /\ directOut' = directOut \ {id}
  /\ peerReceived' = peerReceived \cup {id}
  /\ ackIn' = ackIn \cup {id}
  /\ UNCHANGED <<variant, webrtc, roomVars, popupVars, rtcVars, store,
                 sendCount, accepted, owed, relayUp, inVars>>
  /\ UNCHANGED <<asyncVars, relayVars, sigVars, callerVars>>
  /\ Quiet

\* RTCManager.handleDataChannelMessage, case 'ack':
\* "console.log('Message delivered:', message.id)"
handleAck(id) ==
  /\ id \in ackIn /\ rtcIsConnected(rtcManager)
  /\ ackIn' = ackIn \ {id}
  /\ UNCHANGED <<variant, webrtc, roomVars, popupVars, rtcVars, store,
                 sendCount, accepted, owed, directOut, relayUp, peerReceived, inVars>>
  /\ UNCHANGED <<asyncVars, relayVars, sigVars, callerVars>>
  /\ Quiet

\* RTCManager.sendTypingIndicator(isTyping): the frames put on the data
\* channel; "if (!this.dataChannel || this.dataChannel.readyState !== 'open')
\* return"
sendTypingIndicator_AnyState(r, isTyping) ==
  {[type |-> "typing", isTyping |-> isTyping]}

sendTypingIndicator(r, isTyping) ==
  IF r.live /\ r.dataChannel = "open"
  THEN {[type |-> "typing", isTyping |-> isTyping]}
  ELSE {}

\* setTyping(isTyping): the service that hosts the RTCManager asks it when
\* isConnected(); the other one posts SET_TYPING to the popup, whose
\* PopupRTCManager.setTyping asks its RTCManager if it has one
bgSetTyping(isTyping) ==
  /\ typingOut' =
       IF variant = "background"
       THEN IF rtcIsConnected(rtcManager)
            THEN sendTypingIndicator(rtcManager, isTyping) ELSE {}
       ELSE IF popupPort /\ rtcManager.live
            THEN sendTypingIndicator(rtcManager, isTyping) ELSE {}
  /\ popupOut' = << >> /\ signalOut' = << >> /\ ackOut' = {}
  /\ sendResponse' = "success"
  /\ UNCHANGED <<variant, webrtc, roomVars, popupVars, rtcVars, store, outVars,
                 inVars, roomRequest, callerResult>>
  /\ UNCHANGED <<asyncVars, relayVars, sigVars>>

\* the peer sends its payload p over transport t
peerSends(p, t) ==
  /\ <<p, t>> \notin peerSent
  /\ p \in DOMAIN handed
  /\ \A q \in DOMAIN handed :
        q[2] < p[2] => \E u \in Transports : <<q, u>> \in peerSent
  /\ IF t = "relay"
     THEN /\ signalingConnected /\ inRelayRoom /\ peerInRoom
          /\ relayIn' = relayIn \cup {p}
          /\ UNCHANGED directIn
     ELSE /\ rtcIsConnected(rtcManager)
          /\ directIn' = directIn \cup {p}
          /\ UNCHANGED relayIn
  /\ peerSent' = peerSent \cup {<<p, t>>}
  /\ UNCHANGED <<variant, webrtc, roomVars, popupVars, rtcVars, store, outVars,
                 handed, savedVia, missed>>
  /\ UNCHANGED <<asyncVars, relayVars, sigVars, callerVars>>
  /\ Quiet

\* RTCManager.sendAck(messageId): nothing unless the data channel is open
sendAck(r, id) == IF rtcIsConnected(r) THEN {id} ELSE {}

\* handleIncomingMessage(message): signalingClient.onMessage for a relay-message
handleIncomingMessage(p) ==
  /\ p \in relayIn /\ signalingConnected
  /\ relayIn' = relayIn \ {p}
  /\ IF currentRoomId = NoRoomId
     THEN /\ popupOut' = << >>
          /\ UNCHANGED <<store, handed, savedVia, missed>>
     ELSE /\ store' = saveMessage(store, incomingMessage(RelayData(p), currentRoomId))
          /\ savedVia' = [savedVia EXCEPT ![p] = @ \cup {"relay"}]
          /\ missed' = IF popupPort THEN missed ELSE missed \cup {p}
          \* RELAY_MESSAGE_RECEIVED to the popup, if attached; MESSAGE_RECEIVED
          /\ popupOut' = IF popupPort THEN <<PortMessage("RELAY_MESSAGE_RECEIVED", p)>>
                         ELSE << >>
          /\ handed' = [handed EXCEPT ![p] = @ + 1]
  /\ signalOut' = << >>
  /\ ackOut' = {} /\ typingOut' = {}
  /\ UNCHANGED <<variant, webrtc, roomVars, popupVars, rtcVars, outVars,
                 peerSent, directIn>>
  /\ UNCHANGED <<asyncVars, relayVars, sigVars, callerVars>>

\* rtcManager.onMessage for a 'message' on the data channel:
\* handleIncomingRTCMessage in the service that hosts the RTCManager;
\* PopupRTCManager.handleIncomingMessage and saveIncomingMessage otherwise
handleIncomingRTCMessage(p) ==
  /\ p \in directIn /\ rtcIsConnected(rtcManager)
  /\ directIn' = directIn \ {p}
  /\ IF currentRoomId = NoRoomId
     THEN /\ UNCHANGED <<store, savedVia, missed, pendingMessages>>
          /\ popupOut' = << >>
          \* the popup still passes the message to its onMessage
          /\ handed' = IF variant = "popup" THEN [handed EXCEPT ![p] = @ + 1] ELSE handed
     ELSE /\ store' = saveMessage(store, incomingMessage(DataChannelMessage(p), currentRoomId))
          /\ savedVia' = [savedVia EXCEPT ![p] = @ \cup {"direct"}]
          /\ missed' = IF popupPort THEN missed ELSE missed \cup {p}
          \* RTC_MESSAGE_RECEIVED or a pending-queue entry; MESSAGE_RECEIVED
          /\ pendingMessages' = IF variant = "background" /\ ~popupPort
                                THEN push(pendingMessages, p) ELSE pendingMessages
          /\ popupOut' = IF variant = "background" /\ popupPort
                         THEN <<PortMessage("RTC_MESSAGE_RECEIVED", p)>> ELSE << >>
          /\ handed' = [handed EXCEPT ![p] = @ + 1]
  /\ signalOut' = << >>
  \* RTCManager.handleDataChannelMessage: onMessage(message), then sendAck
  /\ ackOut' = sendAck(rtcManager, p) /\ typingOut' = {}
  /\ UNCHANGED <<variant, webrtc, roomVars, popupPort, openPorts, popupIsInitiator, pendingSignals,
                 hasPopupConnectedBefore, rtcVars, outVars, peerSent, relayIn>>
  /\ UNCHANGED <<asyncVars, relayVars, sigVars, callerVars>>

\* createRoom() / joinRoom(roomId) called, and succeeding, while a room is
\* active: "this.signalingClient = new SignalingClient(signalingUrl)" replaces
\* the reference and nothing disconnects the client it referred to;
\* initializeRTC closes the RTCManager
enterRoomAgain(initiator, roomId) ==
  /\ variant = "background"
  /\ currentRoomId # NoRoomId /\ roomId # currentRoomId /\ roomRequest = "none"
  /\ earlierClients' = [earlierClients EXCEPT
                          !.rooms = IF signalingConnected /\ inRelayRoom
                                    THEN @ \cup {currentRoomId} ELSE @]
  /\ currentRoomId' = roomId
  /\ isRoomInitiator' = initiator
  /\ signalingConnected' = TRUE
  /\ inRelayRoom' = TRUE
  /\ peerInRoom' = FALSE
  /\ initializeRTC
  /\ Quiet
  /\ accepted' = {}
  /\ owed' = {}
  /\ relayIn' = {}
  /\ directIn' = {}
  /\ UNCHANGED <<variant, webrtc, isRelayConnected, popupPort, openPorts, pendingMessages,
                 initTimers, store, sendCount, directOut, relayUp, peerReceived, ackIn,
                 peerSent, handed, savedVia, missed, saving>>
  /\ UNCHANGED <<relayVars, sigVars, callerVars>>

\* onMessage of an earlier client for a relay-message of its room: it is the
\* service's handleIncomingMessage(message)
earlierClientReceives(p, room) ==
  /\ room \in earlierClients.rooms /\ <<p, room>> \notin earlierClients.saved
  /\ currentRoomId # NoRoomId
  /\ store' = saveMessage(store, incomingMessage(RelayData(p), currentRoomId))
  /\ earlierClients' = [earlierClients EXCEPT !.saved = @ \cup {<<p, room>>}]
  /\ savedVia' = [savedVia EXCEPT ![p] = @ \cup {"relay"}]
  /\ missed' = IF popupPort THEN missed ELSE missed \cup {p}
  /\ popupOut' = IF popupPort THEN <<PortMessage("RELAY_MESSAGE_RECEIVED", p)>>
                 ELSE << >>
  /\ handed' = [handed EXCEPT ![p] = @ + 1]
  /\ signalOut' = << >> /\ ackOut' = {} /\ typingOut' = {}
  /\ UNCHANGED <<variant, webrtc, roomVars, popupVars, rtcVars, outVars,
                 peerSent, directIn, relayIn, saving>>
  /\ UNCHANGED <<relayVars, sigVars, callerVars>>

\* handleIncomingRTCMessage / handleIncomingMessage up to "await
\* this.storage.saveMessage(incomingMessage)": the record is built with the
\* current room, then the handler is suspended (on the data channel the
\* RTCManager sends the ack meanwhile)
handlerSuspends(p, t) ==
  /\ variant = "background"
  /\ currentRoomId # NoRoomId
  /\ IF t = "direct"
     THEN /\ p \in directIn /\ rtcIsConnected(rtcManager)
          /\ directIn' = directIn \ {p}
          /\ UNCHANGED relayIn
     ELSE /\ p \in relayIn /\ signalingConnected
          /\ relayIn' = relayIn \ {p}
          /\ UNCHANGED directIn
  /\ saving' = saving \cup
       {[message |-> incomingMessage(IF t = "direct" THEN DataChannelMessage(p)
                                     ELSE RelayData(p), currentRoomId),
         transport |-> t]}
  /\ ackOut' = IF t = "direct" THEN sendAck(rtcManager, p) ELSE {}
  /\ popupOut' = << >> /\ signalOut' = << >> /\ typingOut' = {}
  /\ UNCHANGED <<variant, webrtc, roomVars, popupVars, rtcVars, store, outVars,
                 peerSent, handed, savedVia, missed, earlierClients>>
  /\ UNCHANGED <<relayVars, sigVars, callerVars>>

\* the store write of a suspended handler completes and the handler goes on:
\* the popup is posted the record, or, for the data channel, the record is
\* pushed to pendingMessages
handlerResumes(h) ==
  /\ h \in saving
  /\ saving' = saving \ {h}
  /\ store' = saveMessage(store, h.message)
  /\ savedVia' = [savedVia EXCEPT ![h.message.id] = @ \cup {h.transport}]
  /\ missed' = IF popupPort THEN missed ELSE missed \cup {h.message.id}
  /\ pendingMessages' = IF h.transport = "direct" /\ ~popupPort
                        THEN push(pendingMessages, h.message.id) ELSE pendingMessages
  /\ popupOut' = IF popupPort
                 THEN <<PortMessage(IF h.transport = "direct" THEN "RTC_MESSAGE_RECEIVED"
                                    ELSE "RELAY_MESSAGE_RECEIVED", h.message.id)>>
                 ELSE << >>
  /\ handed' = [handed EXCEPT ![h.message.id] = @ + 1]
  /\ signalOut' = << >> /\ ackOut' = {} /\ typingOut' = {}
  /\ UNCHANGED <<variant, webrtc, roomVars, popupPort, openPorts, popupIsInitiator,
                 pendingSignals, hasPopupConnectedBefore, rtcVars, outVars,
                 peerSent, directIn, relayIn, earlierClients>>
  /\ UNCHANGED <<relayVars, sigVars, callerVars>>

\* "limit = 100", the default getMessages is called with
MessageLimit == 100

\* BackgroundService.getMessages(): the list the popup loads when it opens
bgGetMessages ==
  IF currentRoomId = NoRoomId THEN {}
  ELSE getMessages(store, currentRoomId, MessageLimit)

ConnectionStates == {"connecting", "connected", "disconnected", "failed"}

RoomRequests == {"CREATE_ROOM", "JOIN_ROOM"}

\* the room's life, the popup's and the connections'
Lifecycle ==
  \/ \E type \in RoomRequests : sendToBackground(type)
  \/ bgCreateRoom
  \/ bgJoinRoom
  \/ bgLeaveRoom
  \/ popupAttach
  \/ popupDetach
  \/ signalingDrops
  \/ signalingReconnects
  \/ initTimerFires

\* negotiation: the service and its RTCManager under any sequence of signals
NextNegotiation ==
  \/ Lifecycle
  \/ \E signal \in Signals : onSignal(signal)
  \/ \E state \in ConnectionStates : connectionStateChange(state)

\* sending: the service as the sender of chat messages
NextSend ==
  \/ Lifecycle
  \/ \E signal \in {Signal("peer-joined", Undefined, Undefined),
                    Signal("peer-left", Undefined, Undefined)} : onSignal(signal)
  \/ dataChannelOpens
  \/ dataChannelCloses
  \/ \E sendOk \in BOOLEAN : bgSendMessage(sendOk)
  \/ bgSendMessageNoRoom
  \/ \E id \in LocalIds : relayForwards(id)
  \/ \E id \in LocalIds : directDelivers(id)

\* receiving: the service as the receiver of the peer's chat payloads
NextReceive ==
  \/ Lifecycle
  \/ \E signal \in {Signal("peer-joined", Undefined, Undefined),
                    Signal("peer-left", Undefined, Undefined)} : onSignal(signal)
  \/ dataChannelOpens
  \/ dataChannelCloses
  \/ \E p \in PeerIds, t \in Transports : peerSends(p, t)
  \/ \E p \in PeerIds : handleIncomingMessage(p)
  \/ \E p \in PeerIds : handleIncomingRTCMessage(p)

\* entering a room: requests that are answered, fail or time out for the caller
NextRoomEntry ==
  \/ Lifecycle
  \/ requestTimeout
  \/ \E cause \in {"connect", "relay"} : roomRequestFails(cause)
  \/ \E signal \in {Signal("peer-joined", Undefined, Undefined),
                    Signal("peer-left", Undefined, Undefined)} : onSignal(signal)

\* the signals the relay sends while a peer joins and negotiates
QueuedSignals ==
  { Signal(t, Undefined, Undefined) : t \in {"peer-joined", "offer", "ice-candidate"} }

\* the popup's port: signals and the peer's payloads arriving while the popup
\* comes and goes
NextPopup ==
  \/ \E type \in RoomRequests : sendToBackground(type)
  \/ bgCreateRoom
  \/ bgJoinRoom
  \/ bgLeaveRoom
  \/ popupAttach
  \/ popupDetach
  \/ portConnects
  \/ portDisconnects
  \/ \E signal \in QueuedSignals : onSignal(signal)
  \/ dataChannelOpens
  \/ \E p \in PeerIds : peerSends(p, "direct")
  \/ \E p \in PeerIds : handleIncomingRTCMessage(p)

\* ------------------------------------------- background service: claims
\* C1: the receiving side hands a chat payload to the application layer at most
\* once per payload id, whatever the order of the inbound deliveries over the
\* two transports and of popup detach/attach.
C1_AtMostOncePerId == \A p \in PeerIds : handed[p] <= 1

\* C2: a message sendMessage accepted in the room, after which the session
\* got connected, has reached the peer or is still in flight to it: it is not
\* silently lost.
C2_NoSilentLoss == \A id \in owed : id \in peerReceived \cup directOut \cup relayUp

\* C3: a payload id delivered over the direct and over the relayed transport,
\* in either order, has exactly one record in the store (and none before it
\* is delivered).
C3_OneRecordPerId ==
  \A p \in PeerIds :
    Cardinality({ r \in store : r.id = p }) = IF savedVia[p] = {} THEN 0 ELSE 1

\* C3 witness: one id was saved by the handlers of both transports.
C3_Witness ==
  \E p \in PeerIds : /\ savedVia[p] = Transports
                     /\ Cardinality({ r \in store : r.id = p }) = 1

\* C4: while the service stays in its room, isRoomInitiator and the isInitiator
\* flag of the live RTCManager do not change.
C4_RoleStable ==
  [][(currentRoomId # NoRoomId /\ currentRoomId' = currentRoomId)
     => /\ isRoomInitiator' = isRoomInitiator
        /\ (rtcManager.live /\ rtcManager'.live)
             => rtcManager'.isInitiator = rtcManager.isInitiator]_vars

\* C5: every offer was emitted by a side whose role was Initiator; no offer was
\* emitted while the role was Joiner.
C5_OnlyInitiatorOffers == offersBy \subseteq {"Initiator"}

\* C5 witness: after a session as Initiator, which emitted an offer, the service
\* is a Joiner whose RTCManager was initialized for an incoming offer.
C5_Witness ==
  /\ "Initiator" \in offersBy
  /\ currentRoomId # NoRoomId /\ ~isRoomInitiator
  /\ rtcManager.live /\ rtcManager.peerConnection

\* the queue the service keeps for a detached popup, and what it is posted as
PendingQueue == IF variant = "popup" THEN pendingSignals ELSE pendingMessages
PendingType == IF variant = "popup" THEN "SIGNALING_MESSAGE" ELSE "PENDING_MESSAGE"
PendingItems == IF variant = "popup" THEN Signals ELSE PeerIds

RtcReadyStep ==
  /\ variant = "popup" /\ popupPort' /\ currentRoomId' # NoRoomId
  /\ ~popupPort \/ currentRoomId = NoRoomId

\* C12: the flag hasPopupConnectedBefore is false when a room is created or
\* joined and changes only when RTC_READY sets it; the RTC_READY that finds it
\* false sends no peer-reconnected, and every later one in the room sends
\* exactly one, with isInitiator equal to the role.
C12_ReattachNotifiesPeer ==
  /\ [](currentRoomId = NoRoomId => ~hasPopupConnectedBefore)
  /\ [][
       /\ RtcReadyStep
            => (/\ hasPopupConnectedBefore'
                /\ signalOut' =
                     IF hasPopupConnectedBefore
                     THEN << Signal("peer-reconnected",
                                    IF isRoomInitiator' THEN "true" ELSE "false",
                                    Undefined) >>
                     ELSE << >>)
       /\ (~RtcReadyStep /\ currentRoomId' # NoRoomId)
            => (/\ hasPopupConnectedBefore' = hasPopupConnectedBefore
                /\ signalOut' = << >>)
     ]_vars

\* the relay has both parties in the room and the service is connected to it
PresenceConfirmed == signalingConnected /\ inRelayRoom /\ peerInRoom

\* C13: the reported status is 'connected' iff the data channel is open or the
\* relay has both parties in the room; 'connecting' iff neither holds while
\* signaling is connected and a room is active; 'disconnected' otherwise.
C13_StatusMatchesTransports ==
  getConnectionStatus =
    IF rtcIsConnected(rtcManager) \/ PresenceConfirmed THEN "connected"
    ELSE IF signalingConnected /\ currentRoomId # NoRoomId THEN "connecting"
    ELSE "disconnected"

\* C14: a sendMessage call in an active room puts its payload on the data
\* channel only if the channel is open, on the relayed transport otherwise
\* (also when the direct send fails), and on exactly one of the two.
C14_OneTransportPerSend ==
  [][sendCount' = sendCount + 1
     => LET id == <<"self", sendCount'>>
        IN /\ id \in directOut' => rtcIsConnected(rtcManager)
           /\ ~rtcIsConnected(rtcManager) => id \in relayUp'
           /\ (id \in directOut') # (id \in relayUp')]_vars

\* C16: once the caller of createRoom/joinRoom has seen the timeout, the service
\* has no room of that request: no currentRoomId and no role, also after the
\* relay's answer arrives.
C16_TimeoutLeavesNoRoom ==
  callerResult = "Request timeout" => currentRoomId = NoRoomId /\ ~isRoomInitiator

\* C18: a sendMessage call in an active room returns success whatever the
\* state of the transports: data channel open, closed or failing during the
\* call, signaling socket connected or not.
C18_SendNeverFails ==
  [][sendCount' = sendCount + 1 => sendResponse' = "success"]_vars

\* C18 witness: sendMessage returned success for a payload that went out on no
\* transport.
C18_Witness ==
  /\ sendResponse = "success" /\ currentRoomId # NoRoomId
  /\ <<"self", sendCount>> \in accepted
  /\ <<"self", sendCount>> \notin directOut \cup relayUp \cup peerReceived
  /\ ~signalingConnected /\ ~rtcIsConnected(rtcManager)

\* the room's creator with the data channel open and no popup attached, after
\* the peer's first n payloads arrived over the channel one after the other
\* (for n = 1 the state bgCreateRoom, onSignal(peer-joined), dataChannelOpens,
\* peerSends and handleIncomingRTCMessage lead to)
BacklogState(n) ==
  LET arrived == { <<"peer", k>> : k \in 1..n }
  IN /\ variant = "background" /\ webrtc = TRUE
     /\ currentRoomId = TheRoom /\ isRoomInitiator = TRUE
     /\ signalingConnected = TRUE /\ inRelayRoom = TRUE /\ peerInRoom = TRUE
     /\ isRelayConnected = FALSE
     /\ popupPort = FALSE /\ openPorts = 0 /\ popupIsInitiator = FALSE
     /\ earlierClients = [rooms |-> {}, saved |-> {}] /\ saving = {}
     /\ hasPopupConnectedBefore = FALSE
     /\ pendingSignals = << >>
     /\ pendingMessages = [k \in 1..n |-> <<"peer", k>>]
     /\ rtcManager = [live |-> TRUE, isInitiator |-> TRUE, connectionState |-> "new",
                      peerConnection |-> TRUE, dataChannel |-> "open",
                      replaced |-> FALSE, remoteDescription |-> FALSE,
                      iceDropped |-> FALSE]
     /\ initTimers = 1
     /\ offersBy = {"Initiator"}
     /\ store = { incomingMessage(DataChannelMessage(p), TheRoom) : p \in arrived }
     /\ sendCount = 0 /\ accepted = {} /\ owed = {}
     /\ directOut = {} /\ relayUp = {} /\ peerReceived = {} /\ ackIn = {}
     /\ peerSent = { <<p, "direct">> : p \in arrived }
     /\ directIn = {} /\ relayIn = {}
     /\ DOMAIN handed = DOMAIN savedVia
     /\ \A p \in DOMAIN handed :
          /\ handed[p] = IF p \in arrived THEN 1 ELSE 0
          /\ savedVia[p] = IF p \in arrived THEN {"direct"} ELSE {}
     /\ missed = arrived
     /\ popupOut = << >> /\ signalOut = << >> /\ ackOut = {<<"peer", n>>}
     /\ typingOut = {}
     /\ roomRequest = "none" /\ callerResult = "success" /\ sendResponse = "none"

\* the backlogs a popup comes back to: a single payload, or as many as one
\* call of getMessages returns
BacklogSizes == {1, MessageLimit}

InitBacklog ==
  /\ InitRelay
  /\ InitSignaling /\ urlCount = 1
  /\ \E n \in BacklogSizes :
        LET ids == { <<"peer", k>> : k \in 1..(n + NumPeerPayloads) }
        IN /\ handed = [p \in ids |-> IF p[2] <= n THEN 1 ELSE 0]
           /\ savedVia = [p \in ids |-> IF p[2] <= n THEN {"direct"} ELSE {}]
           /\ BacklogState(n)

\* the popup coming back while the peer keeps sending over the data channel
NextBacklog ==
  \/ popupAttach
  \/ popupDetach
  \/ initTimerFires
  \/ signalingDrops
  \/ signalingReconnects
  \/ dataChannelCloses
  \/ dataChannelOpens
  \/ \E p \in DOMAIN handed : peerSends(p, "direct")
  \/ \E p \in DOMAIN handed : handleIncomingRTCMessage(p)

\* C20: with the popup attached and a room active, every payload a handler
\* saved while no popup was attached is in the list getMessages returns.
C20_MissedMessagesListed ==
  (popupPort /\ currentRoomId # NoRoomId)
    => \A p \in missed : \E r \in bgGetMessages : r.id = p

\* the relay's peer-joined for the other user entering the room
\* (RoomManager.joinRoom: broadcastToRoom(.., ws) leaves the one who joins out)
peerJoins ==
  /\ ~peerInRoom
  /\ onSignal(Signal("peer-joined", Undefined, Undefined))

\* the offer of the room's creator reaches the one who joined
peerOffers ==
  /\ ~isRoomInitiator /\ peerInRoom
  /\ onSignal(Signal("offer", Undefined, Undefined))

\* two users entering a room with nothing failing afterwards
NextConnect ==
  \/ \E type \in RoomRequests : sendToBackground(type)
  \/ bgCreateRoom
  \/ bgJoinRoom
  \/ popupAttach
  \/ popupDetach
  \/ peerJoins
  \/ peerOffers
  \/ initTimerFires
  \/ dataChannelOpens
  \/ bgSendMessage(TRUE)
  \/ \E id \in LocalIds : relayForwards(id)
  \/ \E id \in LocalIds : directDelivers(id)

\* every step of the scenario that can be taken is taken
FairConnect ==
  /\ WF_vars(bgCreateRoom) /\ WF_vars(bgJoinRoom)
  /\ WF_vars(peerJoins) /\ WF_vars(peerOffers)
  /\ WF_vars(initTimerFires) /\ WF_vars(dataChannelOpens)

\* C21: once the service that hosts the transports is in a room with the
\* other user, with or without RTCPeerConnection, its status eventually is
\* 'connected'.
C21_BothReachConnected ==
  (variant = "background" /\ currentRoomId # NoRoomId /\ peerInRoom)
    ~> (getConnectionStatus = "connected")

\* the signals of a negotiation in which the one who joined restarts its popup
RestartSignals ==
  { Signal("offer", Undefined, Undefined), Signal("peer-reconnected", "false", Undefined) }

\* a room whose joiner restarts its popup while the creator sends
NextRestart ==
  \/ \E type \in RoomRequests : sendToBackground(type)
  \/ bgCreateRoom
  \/ bgJoinRoom
  \/ popupAttach
  \/ popupDetach
  \/ peerJoins
  \/ \E signal \in RestartSignals : onSignal(signal)
  \/ initTimerFires
  \/ dataChannelOpens
  \/ bgSendMessage(TRUE)
  \/ \E p \in PeerIds, t \in Transports : peerSends(p, t)
  \/ \E p \in PeerIds : handleIncomingMessage(p)
  \/ \E p \in PeerIds : handleIncomingRTCMessage(p)

\* the popup of the one who joined comes back in the room, signaling connected
JoinerRestarts ==
  /\ variant = "popup" /\ currentRoomId # NoRoomId /\ ~isRoomInitiator
  /\ signalingConnected /\ hasPopupConnectedBefore
  /\ ~popupPort /\ popupPort'

\* the timer set for the creator's RTCManager fires
CreatorTimerFires ==
  /\ isRoomInitiator /\ rtcManager.live
  /\ variant = "popup" => popupIsInitiator
  /\ initTimers' = initTimers - 1
  /\ UNCHANGED <<popupPort, currentRoomId>>

\* the creator sends while its RTCManager is there but its channel is not open
SendsWhileNegotiating ==
  /\ sendCount' = sendCount + 1
  /\ isRoomInitiator /\ signalingConnected
  /\ rtcManager.live /\ ~rtcIsConnected(rtcManager)
  /\ variant = "popup" => popupPort

C23_OnePeerConnection == ~rtcManager.replaced

\* the side has the role and a live RTCManager set up for it
HasTransportAs(initiator) ==
  /\ currentRoomId # NoRoomId /\ isRoomInitiator = initiator /\ rtcManager.live
  /\ variant = "popup" => (popupPort /\ popupIsInitiator = initiator)

\* C24: the handler of the creator's side takes the re-initializing branch for
\* peer-reconnected with isInitiator false, and the handler of the joiner's
\* side does not take it for peer-reconnected with isInitiator true.
C24_ReconnectedHandling ==
  /\ HasTransportAs(TRUE)
       => reinitializesOnReconnect(Signal("peer-reconnected", "false", Undefined))
  /\ HasTransportAs(FALSE)
       => ~reinitializesOnReconnect(Signal("peer-reconnected", "true", Undefined))

\* C25: no RTCManager was handed an ICE candidate that it did not add to a
\* peer connection with a remote description.
C25_CandidatesBuffered == ~rtcManager.iceDropped

\* the handler of transport t runs for the peer's payload p
Received(p, t) ==
  IF t = "direct"
  THEN /\ p \in directIn /\ directIn' = directIn \ {p}
       /\ rtcIsConnected(rtcManager) /\ UNCHANGED <<rtcManager, popupPort>>
  ELSE /\ p \in relayIn /\ relayIn' = relayIn \ {p}
       /\ signalingConnected /\ UNCHANGED <<signalingConnected, currentRoomId>>

\* C26: when a handler runs for a payload in an active room: if a record with
\* its id is stored, the store stays as it is and no ack is sent; if none is,
\* the record saved for it has from = 'peer', and an ack for it is sent if and
\* only if it came over the data channel.
C26_IdempotentReceive ==
  [][\A p \in PeerIds, t \in Transports :
       (Received(p, t) /\ currentRoomId # NoRoomId)
         => IF \E r \in store : r.id = p
            THEN store' = store /\ ackOut' = {}
            ELSE /\ \E r \in store' : r.id = p /\ r.from = "peer" /\ store' = store \cup {r}
                 /\ ackOut' = (IF t = "direct" THEN {p} ELSE {})
    ]_vars

\* delivery: payloads going out over the data channel and the peer's acks
\* coming back
NextDelivery ==
  \/ \E type \in RoomRequests : sendToBackground(type)
  \/ bgCreateRoom
  \/ bgJoinRoom
  \/ bgLeaveRoom
  \/ popupAttach
  \/ popupDetach
  \/ peerJoins
  \/ peerOffers
  \/ initTimerFires
  \/ dataChannelOpens
  \/ dataChannelCloses
  \/ \E sendOk \in BOOLEAN : bgSendMessage(sendOk)
  \/ \E id \in LocalIds : directDelivers(id)
  \/ \E id \in LocalIds : handleAck(id)
  \/ \E isTyping \in BOOLEAN : bgSetTyping(isTyping)

\* C27: the step in which the RTCManager receives the ack for a stored message
\* of the service leaves that record marked delivered, and a record that is
\* marked delivered stays marked.
C27_AckMarksDelivered ==
  /\ [][\A id \in LocalIds :
         (/\ id \in ackIn /\ ackIn' = ackIn \ {id}
          /\ \E r \in store : r.id = id /\ r.from = "self")
           => (\E r \in store' : r.id = id /\ r.delivered = "true")
      ]_vars
  /\ [][\A r \in store :
         r.delivered = "true" => (\E q \in store' : q.id = r.id /\ q.delivered = "true")
      ]_vars

\* C28: a step puts a typing frame on the data channel only when the data
\* channel is open, and such a step sends nothing through the relay, queues
\* nothing and writes nothing to the store.
C28_TypingOnlyDirect ==
  [][typingOut' # {} =>
       /\ rtcIsConnected(rtcManager)
       /\ signalOut' = << >> /\ relayUp' = relayUp /\ owed' = owed
       /\ pendingMessages' = pendingMessages /\ pendingSignals' = pendingSignals
       /\ store' = store /\ directOut' = directOut
  ]_vars

C28_Witness == typingOut # {} /\ rtcIsConnected(rtcManager) /\ store # {}

\* C32: whenever the service's signaling client is connected and the service
\* has a current room, the relay's registry has the client's connection in that
\* room, also after a lost connection was re-established by a reconnect.
C32_RejoinedAfterReconnect ==
  (signalingConnected /\ currentRoomId # NoRoomId) => inRelayRoom

\* C35: the service's popupPort is set whenever a port named 'popup' is
\* connected, also after one of the popup's two ports has disconnected.
C35_PortRegisteredWhileOpen == openPorts > 0 => popupPort

\* rooms entered one after the other, and inbound handlers that are suspended
\* on the store write meanwhile
NextRoomSwitch ==
  \/ \E type \in RoomRequests : sendToBackground(type)
  \/ bgCreateRoom
  \/ bgJoinRoom
  \/ bgLeaveRoom
  \/ popupAttach
  \/ popupDetach
  \/ \E initiator \in BOOLEAN, roomId \in RoomIds : enterRoomAgain(initiator, roomId)
  \/ \E p \in PeerIds, room \in RoomIds : earlierClientReceives(p, room)
  \/ peerJoins
  \/ dataChannelOpens
  \/ \E p \in PeerIds, t \in Transports : peerSends(p, t)
  \/ \E p \in PeerIds, t \in Transports : handlerSuspends(p, t)
  \/ \E p \in PeerIds, t \in Transports, r \in RoomIds :
       handlerResumes([message |-> incomingMessage(IF t = "direct"
                                                   THEN DataChannelMessage(p)
                                                   ELSE RelayData(p), r),
                       transport |-> t])

\* C36: the service has no signaling client connected besides the one it
\* refers to, and what the onMessage of an earlier client saved is not stored
\* under another room than the one that client is in.
C36_OneConnectionOneRoom ==
  /\ earlierClients.rooms = {}
  /\ \A x \in earlierClients.saved :
       \A r \in store : r.id = x[1] => r.roomId = x[2]

\* C38: a handler that resumes after its store write, in a service whose room
\* is no longer the one the handler was started in, adds nothing to
\* pendingMessages, and the record it wrote carries the room it was started in.
C38_SuspendedHandlerHarmless ==
  [][\A h \in saving :
       (saving' = saving \ {h} /\ h.message.roomId # currentRoomId)
         => /\ pendingMessages' = pendingMessages
            /\ \E r \in store' : r.id = h.message.id /\ r.roomId = h.message.roomId
    ]_vars

\* C37: in the step in which createRoom / joinRoom answer the waiting caller
\* with an error, currentRoomId and the role stay as they were and the service
\* is left without a connected signaling client.
C37_FailureLeavesNoTrace ==
  [][(roomRequest # "none" /\ roomRequest' = "none"
        /\ callerResult = "waiting" /\ callerResult' = "error")
       => (/\ currentRoomId' = currentRoomId
           /\ isRoomInitiator' = isRoomInitiator
           /\ ~signalingConnected')]_vars

\* C39: while the service has no room, no step accepts a message, writes to the
\* store or puts anything on the data channel or on the relay, and the only
\* answer a sendMessage gets is the error 'Not connected to a room'.
C39_NoRoomNoSend ==
  [][currentRoomId = NoRoomId =>
       /\ sendCount' = sendCount /\ accepted' = accepted
       /\ store' = store
       /\ directOut' \subseteq directOut /\ relayUp' \subseteq relayUp
       /\ sendResponse' # sendResponse => sendResponse' = "Not connected to a room"
    ]_vars

\* C39 witness: a sendMessage was refused after the room, in which a message
\* had been sent, was left.
C39_Witness ==
  /\ currentRoomId = NoRoomId /\ sendResponse = "Not connected to a room"
  /\ sendCount > 0 /\ store # {}

\* C19: a step in which the popup's port connects or disconnects changes
\* neither currentRoomId, nor the role, nor the signaling connection and the
\* membership of the room, nor the RTCManager the background service holds.
C19_PopupLeavesRoomAlone ==
  [][popupPort' # popupPort
     => /\ currentRoomId' = currentRoomId
        /\ isRoomInitiator' = isRoomInitiator
        /\ signalingConnected' = signalingConnected
        /\ inRelayRoom' = inRelayRoom
        /\ isRelayConnected' = isRelayConnected
        /\ variant = "background" => rtcManager' = rtcManager]_vars

\* C19 witness: the popup attached to a background service whose data channel
\* stayed open while it was away (a payload arrived over it in the meantime).
C19_Witness ==
  /\ variant = "background" /\ currentRoomId # NoRoomId
  /\ popupPort /\ rtcIsConnected(rtcManager)
  /\ Len(popupOut) = 1 /\ popupOut[1].type = "PENDING_MESSAGE"

\* ------------------------------------------------------- specifications
\* a component that a specification does not exercise stays in one initial state
SignalingIdle == InitSignaling /\ urlCount = 1
ServiceIdle == InitService /\ variant = "background" /\ webrtc

InitRelayAlone == InitRelay /\ SignalingIdle /\ ServiceIdle
InitSignalingAlone == InitRelay /\ InitSignaling /\ ServiceIdle
InitServiceAlone == InitRelay /\ SignalingIdle /\ InitService
Init == InitRelay /\ InitSignaling /\ InitService

SpecRelay == InitRelayAlone /\ [][NextRelay]_vars

SpecRelaySignal == InitRelayAlone /\ [][NextRelaySignal]_vars

SpecRelayRooms == InitRelayAlone /\ [][NextRelayRooms]_vars

SpecSignaling == InitSignalingAlone /\ [][NextSignaling]_vars

SpecNegotiation == InitServiceAlone /\ [][NextNegotiation]_vars

SpecSend == InitServiceAlone /\ [][NextSend]_vars

SpecReceive == InitServiceAlone /\ [][NextReceive]_vars

SpecRoomEntry == InitServiceAlone /\ [][NextRoomEntry]_vars

SpecBacklog == InitBacklog /\ [][NextBacklog]_vars
SpecConnect == InitServiceAlone /\ [][NextConnect]_vars /\ FairConnect
SpecRestart == InitServiceAlone /\ [][NextRestart]_vars
SpecDelivery == InitServiceAlone /\ [][NextDelivery]_vars
SpecRoomSwitch == InitServiceAlone /\ [][NextRoomSwitch]_vars
SpecPopup == InitServiceAlone /\ [][NextPopup]_vars

Next ==
  \/ NextRelay \/ NextSignaling \/ NextNegotiation \/ NextSend \/ NextReceive
  \/ NextPopup \/ NextRoomEntry \/ NextRelaySignal \/ NextBacklog \/ NextConnect
  \/ NextRestart \/ NextDelivery \/ NextRelayRooms \/ NextRoomSwitch

Spec == Init /\ [][Next]_vars

====
